---- MODULE Spec2Model ----
(***************************************************************************)
(* Field verification in the Omney Business UI regression scripts.         *)
(*                                                                         *)
(* Five near-duplicate verifiers compare a value scraped from a page       *)
(* (captured_data) with an expected value (TC_03 invoice data or the       *)
(* caller's expected_data) and classify the field as MATCH, MISMATCH or    *)
(* DATA MISSING:                                                           *)
(*   suite_tc04  OmneyBusinessAutomation.tc_04_verify_pending_receivables  *)
(*   suite_tc05  OmneyBusinessAutomation.tc_05_verify_pending_payables     *)
(*   suite_tc06  OmneyBusinessAutomation.tc_06_pay_invoice                 *)
(*   alone_tc04  TC04VerifyPendingReceivables._verify_data                 *)
(*   alone_tc06  TC06PayInvoice.capture_and_verify_form_data               *)
(*                                                                         *)
(* One run verifies one field: the expected value is stored, a verifier    *)
(* captures the page and classifies the field.                             *)
(*                                                                         *)
(* A Python str is a sequence of one-character strings.  A float is an     *)
(* exact decimal (its digits and the number of fraction digits).  No two   *)
(* amounts of the inputs below differ by 0.01 or by anything within        *)
(* rounding error of it, so the exact comparison with 0.01 and the         *)
(* comparison of IEEE doubles in the code give the same status.            *)
(***************************************************************************)
EXTENDS Integers, Sequences, FiniteSets, TLC

VARIABLES
  script,                \* which program runs: the suite or a standalone script
  field,                 \* the field under verification
  expected_given,        \* the expected-value source is a non-empty dict
  invoice_data,          \* the field's entry in the expected-value source
  pageText,              \* the part of document.body.innerText the Amount patterns read
  captured_data,         \* the field's entry in the captured data
  verifier,              \* the verification loop that ran
  verification_results,  \* the result records appended by that loop
  pc,                    \* position of the run
  \* the whole run of a script (RunSpec):
  tc03_invoice_data,          \* self.invoice_data (suite), self.tc03_invoice_data (TC_06)
  expected_data,              \* the expected_data argument of the standalone run_test
  tc04_captured_data,         \* self.tc04_captured_data (suite), self.captured_data (TC_04)
  tc04_verification_results,  \* self.tc04_verification_results (suite),
                              \* self.verification_results (TC_04)
  tc05_captured_data,         \* self.tc05_captured_data
  tc05_verification_results,  \* self.tc05_verification_results
  tc06_form_data,             \* self.tc06_form_data
  tc06_verification_results,  \* self.tc06_verification_results
  test_results,               \* self.test_results, the entries _log_result appended
  test_result,                \* self.test_result of a standalone script
  returns,                    \* the values the test methods returned, in call order
  console,                    \* the [RESULT] counters printed
  paid,                       \* 'Pay Now' was submitted
  reports,                    \* number of reports written
  teardowns,                  \* number of teardown() calls
  raised,                     \* the exception that left the last handler, or "none"
  page,                       \* self.page: "None" until setup has created the page
  invoice_number,             \* self.invoice_number of the standalone TC_04 script
  visible,                    \* what the locators of the current step find on the page
  email_input                 \* email_input of tc_02_login: 0 for None, or the number
                              \* of the selector whose locator it holds

\* the state of the one-field run
fieldVars == <<field, expected_given, invoice_data, pageText, captured_data, verifier,
               verification_results>>

\* the state of the whole run
runVars == <<tc03_invoice_data, expected_data, tc04_captured_data,
             tc04_verification_results, tc05_captured_data, tc05_verification_results,
             tc06_form_data, tc06_verification_results, test_results, test_result,
             returns, console, paid, reports, teardowns, raised,
             page, invoice_number, visible, email_input>>

\* the page and what the run holds of it
pageVars == <<page, invoice_number, visible, email_input>>

vars == <<script, pc, fieldVars, runVars>>

(***************************************************************************)
(* Bounds                                                                  *)
(***************************************************************************)
\* longest generic string drawn as an input
MaxLen == 2
\* longest run of mask characters in a generated masked account number
MaxStars == 8

(***************************************************************************)
(* Python str operations                                                   *)
(***************************************************************************)
Lower == <<"a","b","c","d","e","f","g","h","i","j","k","l","m",
           "n","o","p","q","r","s","t","u","v","w","x","y","z">>
UpperL == <<"A","B","C","D","E","F","G","H","I","J","K","L","M",
            "N","O","P","Q","R","S","T","U","V","W","X","Y","Z">>
Digits == {"0","1","2","3","4","5","6","7","8","9"}

\* value of one decimal digit
DigitVal(c) ==
  CASE c = "0" -> 0 [] c = "1" -> 1 [] c = "2" -> 2 [] c = "3" -> 3 [] c = "4" -> 4
    [] c = "5" -> 5 [] c = "6" -> 6 [] c = "7" -> 7 [] c = "8" -> 8 [] c = "9" -> 9

\* str.isspace for one character
IsSpace(c) == c \in {" ", "\n", "\t"}

\* str.upper for one character
UpperChar(c) ==
  IF \E i \in 1..26 : Lower[i] = c
  THEN UpperL[CHOOSE i \in 1..26 : Lower[i] = c]
  ELSE c

\* str.upper
Upper(s) == [i \in 1..Len(s) |-> UpperChar(s[i])]

\* str.strip: drop leading and trailing whitespace
Strip(s) ==
  IF \A i \in 1..Len(s) : IsSpace(s[i])
  THEN <<>>
  ELSE LET first == CHOOSE i \in 1..Len(s) :
                      ~IsSpace(s[i]) /\ \A j \in 1..(i-1) : IsSpace(s[j])
           last  == CHOOSE i \in 1..Len(s) :
                      ~IsSpace(s[i]) /\ \A j \in (i+1)..Len(s) : IsSpace(s[j])
       IN SubSeq(s, first, last)

\* str.replace(",", "")
IsNotComma(c) == c # ","

\* RemoveCommas that removes the decimal point as well
IsNotSeparator(c) == c \notin {",", "."}
RemoveCommas_AndPoints(s) == SelectSeq(s, IsNotSeparator)

RemoveCommas(s) == SelectSeq(s, IsNotComma)

\* Python's  a in b  for strings: a occurs in b as a contiguous substring
\* (the empty string occurs in every string)
IsSubstring(a, b) ==
  \E i \in 0..(Len(b) - Len(a)) : SubSeq(b, i + 1, i + Len(a)) = a


(***************************************************************************)
(* Python float(): on the input alphabet a string parses when, after       *)
(* stripping whitespace, it is a run of digits with at most one "." and at *)
(* least one digit.  (Signs, exponents, "_", "inf" and "nan" are outside   *)
(* the alphabet.)                                                          *)
(***************************************************************************)
IsDigit(c) == c \in Digits

\* float(s) does not raise ValueError
FloatOK(s) ==
  LET t == Strip(s)
  IN /\ \A i \in 1..Len(t) : t[i] \in Digits \cup {"."}
     /\ Cardinality({i \in 1..Len(t) : t[i] = "."}) <= 1
     /\ \E i \in 1..Len(t) : t[i] \in Digits

RECURSIVE DigitsToInt(_)
DigitsToInt(d) ==
  IF d = <<>> THEN 0
  ELSE 10 * DigitsToInt(SubSeq(d, 1, Len(d) - 1)) + DigitVal(d[Len(d)])

\* the digits of float(s), as an integer
FloatMant(s) == DigitsToInt(SelectSeq(Strip(s), IsDigit))

\* the number of digits of float(s) after the decimal point
FloatFrac(s) ==
  LET t == Strip(s)
  IN IF \E i \in 1..Len(t) : t[i] = "."
     THEN Len(t) - (CHOOSE i \in 1..Len(t) : t[i] = ".")
     ELSE 0

RECURSIVE Pow10(_)
Pow10(n) == IF n = 0 THEN 1 ELSE 10 * Pow10(n - 1)

Max(a, b) == IF a >= b THEN a ELSE b
Abs(x) == IF x < 0 THEN -x ELSE x

\* abs(float(e) - float(a)) < 0.01, for strings that parse
AbsDiffBelowTolerance(e, a) ==
  LET k == Max(Max(FloatFrac(e), FloatFrac(a)), 2)
      x == FloatMant(e) * Pow10(k - FloatFrac(e))
      y == FloatMant(a) * Pow10(k - FloatFrac(a))
  IN Abs(x - y) < Pow10(k - 2)

\* float(e) == float(a), for strings that parse
SameNumber(e, a) ==
  LET k == Max(FloatFrac(e), FloatFrac(a))
  IN FloatMant(e) * Pow10(k - FloatFrac(e)) = FloatMant(a) * Pow10(k - FloatFrac(a))

\* d without its leading "0"s
RECURSIVE DropLeadingZeros(_)
DropLeadingZeros(d) ==
  IF d # <<>> /\ d[1] = "0" THEN DropLeadingZeros(Tail(d)) ELSE d

\* d without its trailing "0"s
RECURSIVE DropTrailingZeros(_)
DropTrailingZeros(d) ==
  IF d # <<>> /\ d[Len(d)] = "0"
  THEN DropTrailingZeros(SubSeq(d, 1, Len(d) - 1))
  ELSE d

\* str(float(s)), for a string that parses: the integer digits without
\* leading zeros (at least "0"), ".", the fraction digits without trailing
\* zeros (at least "0").  (Values that str() prints with an exponent,
\* 1e16 and above or below 0.0001, are longer than the inputs.)
FloatStr(s) ==
  LET t == Strip(s)
      n == Len(t) - FloatFrac(s)
      int == DropLeadingZeros(SelectSeq(SubSeq(t, 1, n), IsDigit))
      frac == DropTrailingZeros(SubSeq(t, n + 1, Len(t)))
  IN (IF int = <<>> THEN <<"0">> ELSE int) \o <<".">>
       \o (IF frac = <<>> THEN <<"0">> ELSE frac)

(***************************************************************************)
(* Values                                                                  *)
(***************************************************************************)
\* a key that is not in the dict (dict.get returns its default)
Absent == <<"<absent>">>

\* dict.get(key, default)
Get(v, default) == IF v = Absent THEN default ELSE v

\* a dict is a function from its keys; {} is the function with no key
EmptyDict == [k \in {} |-> <<>>]

\* d[k] if k is a key of d, Absent otherwise
Entry(d, k) == IF k \in DOMAIN d THEN d[k] ELSE Absent

\* d with d[k] = v
Put(d, k, v) == [x \in DOMAIN d \cup {k} |-> IF x = k THEN v ELSE d[x]]

\* d without the key k
Del(d, k) == [x \in DOMAIN d \ {k} |-> d[x]]

\* Normalize without upper-casing
Normalize_CaseSensitive(v) == IF v # <<>> THEN Strip(v) ELSE <<>>

\* str(v).strip().upper() if v else ''
Normalize(v) == IF v # <<>> THEN Upper(Strip(v)) ELSE <<>>

MATCH == "MATCH"
MISMATCH == "MISMATCH"
DATA_MISSING == "DATA MISSING"


(***************************************************************************)
(* The five verifiers: the status of one field.  invoice_value is the      *)
(* field's entry in the expected-value source, cap its entry in            *)
(* captured_data; either is Absent when the dict has no such key.          *)
(***************************************************************************)
\* expected_data of the suite's tc_04, built from self.invoice_data
ExpectedDataSuiteTC04(f, invoice_value) ==
  CASE f = "Bank Name" -> Upper(Get(invoice_value, <<>>))
    [] f = "Currency"  -> Get(invoice_value, <<"I","N","R">>)
    [] f = "Country"   -> <<"I","n","d","i","a">>
    [] OTHER           -> Get(invoice_value, <<>>)

\* expected_data of the suite's tc_05, built from self.invoice_data
ExpectedDataSuiteTC05(f, invoice_value) == Get(invoice_value, <<>>)

\* AmountStatus that parses the values with their thousands separators
AmountStatus_KeepCommas(expected_value, actual_value) ==
  IF FloatOK(expected_value) /\ FloatOK(actual_value)
  THEN IF AbsDiffBelowTolerance(expected_value, actual_value)
       THEN MATCH
       ELSE MISMATCH
  ELSE IF Normalize(expected_value) # Normalize(actual_value) THEN MISMATCH ELSE MATCH

\* AmountStatus that compares the signed difference: expected - actual < 0.01
AmountStatus_NoAbs(expected_value, actual_value) ==
  IF FloatOK(RemoveCommas(expected_value)) /\ FloatOK(RemoveCommas(actual_value))
  THEN IF \/ AbsDiffBelowTolerance(RemoveCommas(expected_value),
                                   RemoveCommas(actual_value))
          \/ FloatMant(RemoveCommas(expected_value))
               * Pow10(FloatFrac(RemoveCommas(actual_value)))
             < FloatMant(RemoveCommas(actual_value))
               * Pow10(FloatFrac(RemoveCommas(expected_value)))
       THEN MATCH
       ELSE MISMATCH
  ELSE IF Normalize(expected_value) # Normalize(actual_value) THEN MISMATCH ELSE MATCH

\* the Amount branch of the suite's tc_04 and tc_05: numeric comparison,
\* and on ValueError comparison of the normalized strings
AmountStatus(expected_value, actual_value) ==
  IF FloatOK(RemoveCommas(expected_value)) /\ FloatOK(RemoveCommas(actual_value))
  THEN IF AbsDiffBelowTolerance(RemoveCommas(expected_value), RemoveCommas(actual_value))
       THEN MATCH
       ELSE MISMATCH
  ELSE IF Normalize(expected_value) # Normalize(actual_value) THEN MISMATCH ELSE MATCH

\* the verification loop body of the suite's tc_04
VerifySuiteTC04(f, expected_value, cap) ==
  LET actual_value == Get(cap, <<>>)
      expected_normalized == Normalize(expected_value)
      actual_normalized == Normalize(actual_value)
  IN IF f = "Amount" THEN AmountStatus(expected_value, actual_value)
     ELSE IF actual_normalized = expected_normalized THEN MATCH
     ELSE IF actual_value = <<>> THEN DATA_MISSING
     ELSE MISMATCH

\* tc_05 loop body without the partial-match branch
VerifySuiteTC05_ExactOnly(f, expected_value, cap) ==
  LET actual_value == Get(cap, <<>>)
      expected_normalized == Normalize(expected_value)
      actual_normalized == Normalize(actual_value)
  IN IF f = "Amount" THEN AmountStatus(expected_value, actual_value)
     ELSE IF expected_normalized = actual_normalized THEN MATCH
     ELSE IF actual_value = <<>> THEN DATA_MISSING
     ELSE MISMATCH

\* the verification loop body of the suite's tc_05
VerifySuiteTC05(f, expected_value, cap) ==
  LET actual_value == Get(cap, <<>>)
      expected_normalized == Normalize(expected_value)
      actual_normalized == Normalize(actual_value)
  IN IF f = "Amount" THEN AmountStatus(expected_value, actual_value)
     ELSE IF expected_normalized = actual_normalized THEN MATCH
     ELSE IF \/ IsSubstring(actual_normalized, expected_normalized)
             \/ IsSubstring(expected_normalized, actual_normalized) THEN MATCH
     ELSE IF actual_value = <<>> THEN DATA_MISSING
     ELSE MISMATCH

\* 'amount' in tc03_field.lower(): of the six names in fields_to_verify only
\* 'Amount' contains it
HasAmountInName(tc03_field) == tc03_field = "Amount"

\* the verification loop body of the suite's tc_06_pay_invoice
VerifyTC06(tc03_field, invoice_value, cap) ==
  LET expected == Upper(Strip(Get(invoice_value, <<>>)))
      actual == Upper(Strip(Get(cap, <<>>)))
      exp_str == RemoveCommas(Get(invoice_value, <<"0">>))
      act_str == RemoveCommas(Get(cap, <<"0">>))
  IN IF HasAmountInName(tc03_field)
     THEN IF FloatOK(exp_str) /\ FloatOK(act_str)
          THEN IF AbsDiffBelowTolerance(exp_str, act_str) THEN MATCH ELSE MISMATCH
          ELSE IF expected = actual THEN MATCH ELSE MISMATCH
     ELSE IF /\ expected # <<>>
             /\ actual # <<>>
             /\ (IsSubstring(expected, actual) \/ IsSubstring(actual, expected))
          THEN MATCH
     ELSE IF actual = <<>> THEN DATA_MISSING
     ELSE MISMATCH

VerifySuiteTC06(tc03_field, invoice_value, cap) == VerifyTC06(tc03_field, invoice_value, cap)

\* the standalone loop body with the substring test of tc_05, which does not
\* ask for non-empty values
VerifyAloneTC06_NoEmptyGuard(tc03_field, invoice_value, cap) ==
  LET expected == Upper(Strip(Get(invoice_value, <<>>)))
      actual == Upper(Strip(Get(cap, <<>>)))
      exp_str == RemoveCommas(Get(invoice_value, <<"0">>))
      act_str == RemoveCommas(Get(cap, <<"0">>))
  IN IF HasAmountInName(tc03_field)
     THEN IF FloatOK(exp_str) /\ FloatOK(act_str)
          THEN IF AbsDiffBelowTolerance(exp_str, act_str) THEN MATCH ELSE MISMATCH
          ELSE IF expected = actual THEN MATCH ELSE MISMATCH
     ELSE IF IsSubstring(expected, actual) \/ IsSubstring(actual, expected) THEN MATCH
     ELSE IF actual = <<>> THEN DATA_MISSING
     ELSE MISMATCH

\* the standalone TC_06 loop body whose ValueError branch compares the raw strings
VerifyAloneTC06_RawFallback(tc03_field, invoice_value, cap) ==
  LET expected == Upper(Strip(Get(invoice_value, <<>>)))
      actual == Upper(Strip(Get(cap, <<>>)))
      exp_str == RemoveCommas(Get(invoice_value, <<"0">>))
      act_str == RemoveCommas(Get(cap, <<"0">>))
  IN IF HasAmountInName(tc03_field)
     THEN IF FloatOK(exp_str) /\ FloatOK(act_str)
          THEN IF AbsDiffBelowTolerance(exp_str, act_str) THEN MATCH ELSE MISMATCH
          ELSE IF Get(invoice_value, <<>>) = Get(cap, <<>>) THEN MATCH ELSE MISMATCH
     ELSE IF /\ expected # <<>>
             /\ actual # <<>>
             /\ (IsSubstring(expected, actual) \/ IsSubstring(actual, expected))
          THEN MATCH
     ELSE IF actual = <<>> THEN DATA_MISSING
     ELSE MISMATCH

\* the loop body of the standalone TC06PayInvoice.capture_and_verify_form_data,
\* from its own source
VerifyAloneTC06(tc03_field, invoice_value, cap) ==
  LET expected == Upper(Strip(Get(invoice_value, <<>>)))
      actual == Upper(Strip(Get(cap, <<>>)))
      exp_num == RemoveCommas(Get(invoice_value, <<"0">>))
      act_num == RemoveCommas(Get(cap, <<"0">>))
  IN IF HasAmountInName(tc03_field)
     THEN IF FloatOK(exp_num) /\ FloatOK(act_num)
          THEN IF AbsDiffBelowTolerance(exp_num, act_num) THEN MATCH ELSE MISMATCH
          ELSE IF expected = actual THEN MATCH ELSE MISMATCH
     ELSE IF expected # <<>> /\ actual # <<>>
             /\ (IsSubstring(expected, actual) \/ IsSubstring(actual, expected))
          THEN MATCH
     ELSE IF actual = <<>> THEN DATA_MISSING
     ELSE MISMATCH

\* _verify_data that drops the mask characters of the actual value only
IsNotStar(c) == c # "*"
VerifyAloneTC04_UnmaskActual(f, expected_value, cap) ==
  LET actual_value == Get(cap, <<>>)
      expected_normalized == Normalize(expected_value)
      actual_normalized == SelectSeq(Normalize(actual_value), IsNotStar)
  IN IF actual_normalized = expected_normalized THEN MATCH
     ELSE IF actual_value = <<>> THEN DATA_MISSING
     ELSE MISMATCH

\* the loop body of the standalone TC04VerifyPendingReceivables._verify_data
VerifyAloneTC04(f, expected_value, cap) ==
  LET actual_value == Get(cap, <<>>)
      expected_normalized == Normalize(expected_value)
      actual_normalized == Normalize(actual_value)
  IN IF actual_normalized = expected_normalized THEN MATCH
     ELSE IF actual_value = <<>> THEN DATA_MISSING
     ELSE MISMATCH


(***************************************************************************)
(* Field extraction from the page text.  The page text is a sequence of    *)
(* characters in which a label ("Amount Due", "Payment Request") is one    *)
(* element.                                                                *)
(***************************************************************************)
\* the character class [\d,.]
InAmountClass(c) == c \in Digits \cup {",", "."}

\* the first index from i on that is not whitespace (Len + 1 if there is none)
SkipSpaces(text, i) ==
  IF \A j \in i..Len(text) : IsSpace(text[j])
  THEN Len(text) + 1
  ELSE CHOOSE j \in i..Len(text) :
         ~IsSpace(text[j]) /\ \A k \in i..(j-1) : IsSpace(text[k])

\* the regular expression  label\s*\n?\s*([\d,.]+)  matches at index i
MatchesAt(text, label, i) ==
  /\ text[i] = label
  /\ SkipSpaces(text, i + 1) <= Len(text)
  /\ InAmountClass(text[SkipSpaces(text, i + 1)])

\* pageText.match(/label\s*\n?\s*([\d,.]+)/i): group 1 of the first match,
\* trimmed, or Absent when there is no match
MatchAmount(text, label) ==
  IF ~\E i \in 1..Len(text) : MatchesAt(text, label, i)
  THEN Absent
  ELSE LET i == CHOOSE i \in 1..Len(text) :
                  MatchesAt(text, label, i) /\ \A j \in 1..(i-1) : ~MatchesAt(text, label, j)
           b == SkipSpaces(text, i + 1)
           e == CHOOSE e \in b..Len(text) :
                  /\ \A k \in b..e : InAmountClass(text[k])
                  /\ (e = Len(text) \/ ~InAmountClass(text[e + 1]))
       IN Strip(SubSeq(text, b, e))

\* CaptureAmount that lets the 'Payment Request' pattern override
CaptureAmount_LastPatternWins(text) ==
  IF MatchAmount(text, "Payment Request") # Absent
  THEN MatchAmount(text, "Payment Request")
  ELSE MatchAmount(text, "Amount Due")

\* data['Amount'] of the details page: 'Amount Due' first, 'Payment Request'
\* only if that left data['Amount'] unset
CaptureAmount(text) ==
  IF MatchAmount(text, "Amount Due") # Absent
  THEN MatchAmount(text, "Amount Due")
  ELSE MatchAmount(text, "Payment Request")


(***************************************************************************)
(* Inputs                                                                  *)
(***************************************************************************)
\* all strings over alphabet of length at most n
Str(alphabet, n) == UNION {[1..k -> alphabet] : k \in 0..n}

\* one character of each kind the verifiers tell apart: a digit, the decimal
\* point, the thousands separator, whitespace, a lower- and an upper-case letter
Alphabet == {"5", ".", ",", " ", "a", "A"}

BANDHAN_BANK == <<"B","A","N","D","H","A","N"," ","B","A","N","K">>
BANDHAN_BANK_LIMITED == BANDHAN_BANK \o <<" ","L","I","M","I","T","E","D">>
Bandhan_Bank == <<"B","a","n","d","h","a","n"," ","B","a","n","k">>
NotAvailable == <<"N","/","A">>
India == <<"I","n","d","i","a">>
Amount_9500_00 == <<"9","5","0","0",".","0","0">>
Amount_9_500_00 == <<"9",",","5","0","0",".","0","0">>
Amount_9499_50 == <<"9","4","9","9",".","5","0">>
Amount_9500 == <<"9","5","0","0">>
INV == <<"I","N","V","-">>

ScenarioStrings ==
  {BANDHAN_BANK, BANDHAN_BANK_LIMITED, Bandhan_Bank, NotAvailable, India,
   Amount_9500_00, Amount_9_500_00, Amount_9499_50, Amount_9500}

\* any string an input element can hold
AnyString == Str(Alphabet, MaxLen) \cup ScenarioStrings

\* n mask characters
Stars(n) == [i \in 1..n |-> "*"]

\* masked account numbers: mask characters followed by visible digits
MaskedValues ==
  {Stars(n) \o d : n \in 1..MaxStars,
                   d \in {<<"5">>, <<"5","6","7","8">>, <<"5","6","7","9">>}}

\* _generate_invoice_number: 'INV-' followed by digits
InvoiceNumbers == {INV \o d : d \in Str({"5", "0"}, MaxLen) \ {<<>>}}

\* str(int(x)) of a non-negative amount
IntStrings ==
  {d \in Str({"5", "0"}, MaxLen) : d # <<>> /\ (d[1] = "0" => Len(d) = 1)}
    \cup {Amount_9500}

\* group 1 of /Bank Name:\s*\n?\s*([A-Za-z\s]+?)\s*(?:\n|Account)/i, trimmed
LetterNames ==
  {Strip(t) : t \in Str({"a", "A", " "}, MaxLen) \ {<<>>}}
    \cup {BANDHAN_BANK, BANDHAN_BANK_LIMITED, Bandhan_Bank, India}

\* group 1 of /Bank Name\s*\n\s*([A-Za-z][A-Za-z\s]+?).../, trimmed
LetterNamesFromLetter == {t \in LetterNames : t # <<>>}

\* group 1 of /Account Number:\s*\n?\s*([*\d]+)/i
AccountNumbers == (Str({"*", "5"}, MaxLen) \ {<<>>}) \cup MaskedValues

\* group 1 of /Invoice Number:\s*\n?\s*([A-Z0-9-]+)/i
InvoiceNumberTexts == (Str({"5", "a", "A"}, MaxLen) \ {<<>>}) \cup InvoiceNumbers

Fields == {"Invoice Number", "Bank Name", "Account Number", "Country", "Amount"}

\* the entries of self.invoice_data that tc_03_raise_invoice stores
SuiteInvoiceData(f) ==
  CASE f = "Invoice Number" -> InvoiceNumbers
    [] f = "Bank Name"      -> LetterNamesFromLetter \cup {NotAvailable}
    [] f = "Account Number" -> AccountNumbers \cup {NotAvailable}
    [] f = "Amount"         -> IntStrings
    [] OTHER                -> {Absent}

\* default_expected of the standalone TC_04 run_test
DefaultExpected(f) ==
  CASE f = "Invoice Number" -> INV \o <<"5">>
    [] f = "Bank Name"      -> BANDHAN_BANK
    [] f = "Account Number" -> Stars(8) \o <<"5","6","7","8">>
    [] f = "Currency"       -> <<"I", "N", "R">>
    [] f = "Country"        -> India
    [] f = "Amount"         -> Amount_9500_00

\* what follows a label in the page text
PageBodies ==
  Str({"5", ",", "."}, MaxLen)
    \cup {<<"a">>, <<"5", "a">>, Amount_9500_00, Amount_9_500_00, Amount_9499_50}

\* the text between a label and its value
Separators == {<<>>, <<"\n">>, <<" ", "\n", " ">>}

\* page texts of a details page: no amount label, one label, or both labels
PageTexts ==
  {<<>>}
    \cup {<<l>> \o sep \o b : l \in {"Amount Due", "Payment Request"},
                              sep \in Separators, b \in PageBodies}
    \cup {<<"Payment Request", "\n">> \o b \o <<"\n", "Amount Due", "\n">> \o c :
            b \in {<<"5">>, <<"a">>}, c \in {<<"5", "5">>, <<"a">>}}

\* the entries the details-page script of TC_04 can put into captured_data
\* for a field other than Amount
CapturedTC04(f) ==
  CASE f = "Invoice Number" -> InvoiceNumberTexts \cup {Absent}
    [] f = "Bank Name"      -> LetterNames \cup {Absent}
    [] f = "Account Number" -> AccountNumbers \cup {Absent}
    [] f = "Country"        -> LetterNames \cup {Absent}
    [] OTHER                -> {}

\* the entries the details-page script of TC_05 can put into captured_data
\* for a field other than Amount
CapturedTC05(f) ==
  CASE f = "Invoice Number" -> InvoiceNumberTexts \cup {Absent}
    [] f = "Bank Name"      -> LetterNamesFromLetter \cup {Absent}
    [] f = "Account Number" -> AccountNumbers \cup {Absent}
    [] OTHER                -> {}

\* the entries the form script of TC_06 can put into captured_data
CapturedTC06(f) ==
  CASE f = "Invoice Number" -> AnyString \cup InvoiceNumbers \cup {Absent}
    [] f = "Bank Name"      ->
         {BANDHAN_BANK, BANDHAN_BANK_LIMITED, Bandhan_Bank,
          <<" ">> \o Bandhan_Bank \o <<" ">>, Absent}
    [] f = "Account Number" -> MaskedValues \cup {Absent}
    [] f = "Amount"         -> AnyString \cup {Absent}
    [] OTHER                -> {}


\* the entries a caller of a standalone script can supply as expected values
CallerValues(f) ==
  AnyString \cup (IF f = "Account Number" THEN MaskedValues ELSE {})

(***************************************************************************)
(* Result records                                                          *)
(***************************************************************************)
Blank == <<"(Blank)">>

\* the result dict of the tc_04 / tc_05 / _verify_data loops
Result(f, expected_value, cap, st) ==
  [field    |-> f,
   expected |-> expected_value,
   actual   |-> IF Get(cap, <<>>) # <<>> THEN Get(cap, <<>>) ELSE Blank,
   status   |-> st]

\* the result dict of the TC_06 loops
ResultTC06(tc03_field, invoice_value, cap, st) ==
  [field    |-> tc03_field,
   expected |-> Get(invoice_value, <<>>),
   actual   |-> Get(cap, Blank),
   status   |-> st]

(***************************************************************************)
(* The run: the expected values are stored, then one verifier captures and *)
(* verifies the field.                                                     *)
(***************************************************************************)
\* the run state of a freshly constructed object (__init__)
RunIdle ==
  /\ tc03_invoice_data = EmptyDict
  /\ expected_data = <<>>
  /\ tc04_captured_data = EmptyDict
  /\ tc04_verification_results = <<>>
  /\ tc05_captured_data = EmptyDict
  /\ tc05_verification_results = <<>>
  /\ tc06_form_data = EmptyDict
  /\ tc06_verification_results = <<>>
  /\ test_results = <<>>
  /\ test_result = "None"
  /\ returns = <<>>
  /\ console = <<>>
  /\ paid = FALSE
  /\ reports = 0
  /\ teardowns = 0
  /\ raised = "none"
  /\ page = "None"
  /\ invoice_number = Absent
  /\ visible = <<>>
  /\ email_input = 0

Init ==
  /\ script = "none"
  /\ field = "none"
  /\ expected_given = FALSE
  /\ invoice_data = Absent
  /\ pageText = <<>>
  /\ captured_data = Absent
  /\ verifier = "none"
  /\ verification_results = <<>>
  /\ pc = "start"
  /\ RunIdle

\* the expected values are stored for field f with entry v
StoreExpected(name, f, given, v) ==
  /\ script' = name
  /\ field' = f
  /\ expected_given' = given
  /\ invoice_data' = v
  /\ pc' = "ready"
  /\ UNCHANGED <<pageText, captured_data, verifier, verification_results>>
  /\ UNCHANGED runVars

\* suite: TC_03 stores self.invoice_data
tc_03_raise_invoice ==
  /\ pc = "start"
  /\ \E f \in Fields : \E v \in SuiteInvoiceData(f) :
       StoreExpected("suite", f, TRUE, v)

\* standalone TC_06: the caller hands over the TC_03 data
set_tc03_data ==
  /\ pc = "start"
  /\ \E f \in Fields \ {"Country"} : \E v \in CallerValues(f) \cup {Absent} :
       StoreExpected("alone_tc06", f, TRUE, v)

\* standalone TC_06 as main() runs it: tc03_invoice_data stays {}
TC06PayInvoice_main ==
  /\ pc = "start"
  /\ \E f \in Fields \ {"Country"} :
       StoreExpected("alone_tc06", f, FALSE, Absent)

\* standalone TC_04: run_test(expected_data) with a non-empty dict
run_test ==
  /\ pc = "start"
  /\ \E f \in Fields : \E v \in CallerValues(f) :
       StoreExpected("alone_tc04", f, TRUE, v)

\* standalone TC_04: run_test() without expected data uses default_expected
run_test_default ==
  /\ pc = "start"
  /\ \E f \in Fields : StoreExpected("alone_tc04", f, FALSE, DefaultExpected(f))

\* the details pages as <<page text, captured Amount>>
AmountPages == {<<body, CaptureAmount(body)>> : body \in PageTexts}

\* what the details-page script hands back for field f, as <<page text,
\* captured entry>>: the Amount is extracted from the page text, any other
\* field is one of the values its own pattern can capture
DetailsPage(f, others) ==
  IF f = "Amount" THEN AmountPages ELSE {<<(<<>>), cap>> : cap \in others}

\* suite TC_04, steps 3 and 4: capture the details page and verify
tc_04_verify_pending_receivables ==
  /\ pc = "ready"
  /\ script = "suite"
  /\ \E d \in DetailsPage(field, CapturedTC04(field)) :
       LET expected_value == ExpectedDataSuiteTC04(field, invoice_data)
       IN /\ pageText' = d[1]
          /\ captured_data' = d[2]
          /\ verification_results' =
               <<Result(field, expected_value, d[2],
                        VerifySuiteTC04(field, expected_value, d[2]))>>
  /\ verifier' = "suite_tc04"
  /\ pc' = "done"
  /\ UNCHANGED <<script, field, expected_given, invoice_data>>
  /\ UNCHANGED runVars

\* suite TC_05, steps 5 and 6: capture the details page and verify
tc_05_verify_pending_payables ==
  /\ pc = "ready"
  /\ script = "suite"
  /\ field # "Country"
  /\ \E d \in DetailsPage(field, CapturedTC05(field)) :
       LET expected_value == ExpectedDataSuiteTC05(field, invoice_data)
       IN /\ pageText' = d[1]
          /\ captured_data' = d[2]
          /\ verification_results' =
               <<Result(field, expected_value, d[2],
                        VerifySuiteTC05(field, expected_value, d[2]))>>
  /\ verifier' = "suite_tc05"
  /\ pc' = "done"
  /\ UNCHANGED <<script, field, expected_given, invoice_data>>
  /\ UNCHANGED runVars

\* suite TC_06: capture the pay form and verify against the TC_03 data
tc_06_pay_invoice ==
  /\ pc = "ready"
  /\ script = "suite"
  /\ field # "Country"
  /\ \E cap \in CapturedTC06(field) :
       /\ captured_data' = cap
       /\ verification_results' =
            <<ResultTC06(field, invoice_data, cap,
                         VerifySuiteTC06(field, invoice_data, cap))>>
  /\ verifier' = "suite_tc06"
  /\ pc' = "done"
  /\ UNCHANGED <<script, field, expected_given, invoice_data, pageText>>
  /\ UNCHANGED runVars

\* standalone TC_06: capture the pay form and, if TC_03 data was set, verify
capture_and_verify_form_data ==
  /\ pc = "ready"
  /\ script = "alone_tc06"
  /\ \E cap \in CapturedTC06(field) :
       /\ captured_data' = cap
       /\ verification_results' =
            IF expected_given
            THEN <<ResultTC06(field, invoice_data, cap,
                              VerifyAloneTC06(field, invoice_data, cap))>>
            ELSE <<>>
  /\ verifier' = "alone_tc06"
  /\ pc' = "done"
  /\ UNCHANGED <<script, field, expected_given, invoice_data, pageText>>
  /\ UNCHANGED runVars

\* standalone TC_04: _capture_invoice_details stores self.captured_data
capture_invoice_details ==
  /\ pc = "ready"
  /\ script = "alone_tc04"
  /\ \E d \in DetailsPage(field, CapturedTC04(field)) :
       /\ pageText' = d[1]
       /\ captured_data' = d[2]
  /\ pc' = "captured"
  /\ UNCHANGED <<script, field, expected_given, invoice_data, verifier,
                 verification_results>>
  /\ UNCHANGED runVars

\* standalone TC_04: _verify_data(expected_data)
verify_data ==
  /\ pc = "captured"
  /\ script = "alone_tc04"
  /\ verifier' = "alone_tc04"
  /\ verification_results' =
       <<Result(field, invoice_data, captured_data,
                VerifyAloneTC04(field, invoice_data, captured_data))>>
  /\ pc' = "done"
  /\ UNCHANGED <<script, field, expected_given, invoice_data, pageText,
                 captured_data>>
  /\ UNCHANGED runVars

Next ==
  \/ tc_03_raise_invoice
  \/ set_tc03_data
  \/ TC06PayInvoice_main
  \/ run_test
  \/ run_test_default
  \/ tc_04_verify_pending_receivables
  \/ tc_05_verify_pending_payables
  \/ tc_06_pay_invoice
  \/ capture_and_verify_form_data
  \/ capture_invoice_details
  \/ verify_data

Spec == Init /\ [][Next]_vars


(***************************************************************************)
(* A whole verification pass: the result list of one run of a loop over    *)
(* all its fields.  inv is the dict of expected values, cap the dict of    *)
(* captured values.                                                        *)
(***************************************************************************)
\* the keys of expected_data in the suite's tc_04, in the order of the literal
FieldsTC04 ==
  <<"Invoice Number", "Bank Name", "Account Number", "Currency", "Country", "Amount">>

\* the keys of expected_data in the suite's tc_05
FieldsTC05 == <<"Invoice Number", "Bank Name", "Account Number", "Currency", "Amount">>

\* fields_to_verify of TC_06 (tc03_field and tc06_field are the same name)
fields_to_verify ==
  <<"Invoice Number", "Bank Name", "Account Number", "Currency", "Amount", "Purpose">>

\* the loop of the suite's tc_04
PassSuiteTC04(inv, cap) ==
  [i \in 1..Len(FieldsTC04) |->
     LET f == FieldsTC04[i]
         expected_value == ExpectedDataSuiteTC04(f, Entry(inv, f))
     IN Result(f, expected_value, Entry(cap, f),
               VerifySuiteTC04(f, expected_value, Entry(cap, f)))]

\* the loop of tc_05 with a 'continue' for the fields nothing was captured for
PassSuiteTC05_SkipMissing(inv, cap) ==
  LET all == [i \in 1..Len(FieldsTC05) |->
                LET f == FieldsTC05[i]
                    expected_value == ExpectedDataSuiteTC05(f, Entry(inv, f))
                IN Result(f, expected_value, Entry(cap, f),
                          VerifySuiteTC05(f, expected_value, Entry(cap, f)))]
      Shown(r) == r.actual # Blank
  IN SelectSeq(all, Shown)

\* the loop of the suite's tc_05
PassSuiteTC05(inv, cap) ==
  [i \in 1..Len(FieldsTC05) |->
     LET f == FieldsTC05[i]
         expected_value == ExpectedDataSuiteTC05(f, Entry(inv, f))
     IN Result(f, expected_value, Entry(cap, f),
               VerifySuiteTC05(f, expected_value, Entry(cap, f)))]

\* the loop of TC_06 without the except clause around float(): the pass ends
\* at an Amount that does not parse
PassTC06_AbortOnValueError(inv, cap) ==
  LET all == [i \in 1..Len(fields_to_verify) |->
                LET tc03_field == fields_to_verify[i]
                IN ResultTC06(tc03_field, Entry(inv, tc03_field), Entry(cap, tc03_field),
                              VerifyTC06(tc03_field, Entry(inv, tc03_field),
                                         Entry(cap, tc03_field)))]
      parses == /\ FloatOK(RemoveCommas(Get(Entry(inv, "Amount"), <<"0">>)))
                /\ FloatOK(RemoveCommas(Get(Entry(cap, "Amount"), <<"0">>)))
  IN IF parses THEN all ELSE SubSeq(all, 1, 4)

\* the loop of TC_06 (suite and standalone)
PassTC06(inv, cap) ==
  [i \in 1..Len(fields_to_verify) |->
     LET tc03_field == fields_to_verify[i]
     IN ResultTC06(tc03_field, Entry(inv, tc03_field), Entry(cap, tc03_field),
                   VerifyTC06(tc03_field, Entry(inv, tc03_field), Entry(cap, tc03_field)))]

\* the loop of the standalone _verify_data; exp is expected_data.items(), a
\* sequence of <<field, expected value>>
PassAloneTC04(exp, cap) ==
  [i \in 1..Len(exp) |->
     Result(exp[i][1], exp[i][2], Entry(cap, exp[i][1]),
            VerifyAloneTC04(exp[i][1], exp[i][2], Entry(cap, exp[i][1])))]

\* failed_count that counts the MISMATCH results only
failed_count_MismatchOnly(results) ==
  Cardinality({i \in 1..Len(results) : results[i].status = MISMATCH})

\* failed_count = sum(1 for r in verification_results if r['status'] != 'MATCH')
failed_count(results) ==
  Cardinality({i \in 1..Len(results) : results[i].status # MATCH})

\* overall_status that passes unless some result is MISMATCH
overall_status_MissingPasses(results) ==
  IF \E i \in 1..Len(results) : results[i].status = MISMATCH THEN "FAILED" ELSE "PASSED"

\* overall_status = "PASSED" if failed_count == 0 else "FAILED"
overall_status(results) == IF failed_count(results) = 0 THEN "PASSED" ELSE "FAILED"

\* the three [RESULT] lines: Fields Verified, Fields Matched, Fields
\* Mismatched/Missing
Summary(tc_id, results) ==
  [tc_id    |-> tc_id,
   verified |-> Len(results),
   matched  |-> Len(results) - failed_count(results),
   failed   |-> failed_count(results)]

(***************************************************************************)
(* Inputs of a whole run                                                   *)
(***************************************************************************)
INV_5 == INV \o <<"5">>
INV_50 == INV \o <<"5", "0">>
INR == <<"I", "N", "R">>
Demo == <<"D", "e", "m", "o">>
SURAJ_KUMAAR == <<"S","U","R","A","J"," ","K","U","M","A","A","R">>
Test_png == <<"T","e","s","t",".","p","n","g">>
Masked_8 == Stars(8) \o <<"5", "6", "7", "8">>
Masked_4 == Stars(4) \o <<"5", "6", "7", "8">>

\* the entries of self.invoice_data the verifiers read, as tc_03 stores them
InvoiceData(bank, account, amount) ==
  [k \in {"Invoice Number", "Bank Name", "Account Number", "Currency", "Amount",
          "Purpose"} |->
     CASE k = "Invoice Number" -> INV_5
       [] k = "Bank Name"      -> bank
       [] k = "Account Number" -> account
       [] k = "Currency"       -> INR
       [] k = "Amount"         -> amount
       [] k = "Purpose"        -> Demo]

\* self.invoice_data after a TC_03 that passed: the bank details captured
\* from the form, or 'N/A' where the form showed none
InvoiceDicts ==
  {InvoiceData(Bandhan_Bank, Masked_8, Amount_9500),
   InvoiceData(NotAvailable, NotAvailable, Amount_9500),
   InvoiceData(BANDHAN_BANK, Masked_8, <<"0">>)}

\* what the details page of the invoice shows when everything is rendered
DetailsBase ==
  [k \in {"Invoice Number", "Bank Name", "Account Number", "Currency", "Country",
          "Amount"} |->
     CASE k = "Invoice Number" -> INV_5
       [] k = "Bank Name"      -> BANDHAN_BANK
       [] k = "Account Number" -> Masked_8
       [] k = "Currency"       -> INR
       [] k = "Country"        -> India
       [] k = "Amount"         -> Amount_9_500_00]

\* other values a pattern of the details page can capture
DetailsVariants ==
  {<<"Invoice Number", INV_50>>, <<"Bank Name", BANDHAN_BANK_LIMITED>>,
   <<"Account Number", Masked_4>>, <<"Amount", Amount_9499_50>>,
   <<"Amount", <<",">> >>}

\* base with one key missing, with one entry replaced, or as it is
OneOff(base, optional, variants) ==
  {base} \cup {Del(base, k) : k \in optional}
         \cup {Put(base, p[1], p[2]) : p \in variants}

\* captured_data of the TC_04 details page; 'Currency' is always set
CapturesTC04 ==
  OneOff(DetailsBase, DOMAIN DetailsBase \ {"Currency"},
         DetailsVariants \cup {<<"Currency", <<>> >>})
    \cup {[k \in {"Currency"} |-> <<>>]}

\* the details page of the standalone TC_04 also shows the sender and the
\* attached document
StandaloneBase ==
  [k \in DOMAIN DetailsBase \cup {"Bill From Name", "Bill From Country", "Document Name"} |->
     CASE k = "Bill From Name"    -> SURAJ_KUMAAR
       [] k = "Bill From Country" -> India
       [] k = "Document Name"     -> Test_png
       [] OTHER                   -> DetailsBase[k]]

\* captured_data of the standalone TC_04
CapturesAloneTC04 ==
  OneOff(StandaloneBase, DOMAIN StandaloneBase \ {"Currency"},
         DetailsVariants \cup {<<"Currency", <<>> >>, <<"Amount", Amount_9500_00>>})
    \cup {[k \in {"Currency"} |-> <<>>]}

\* captured_data of the TC_05 Pay Invoice page; every key is optional
PayablesBase == Del(DetailsBase, "Country")
CapturesTC05 ==
  OneOff(PayablesBase, DOMAIN PayablesBase, DetailsVariants) \cup {EmptyDict}

\* captured_data of the TC_06 pay form
FormBase ==
  [k \in {"Invoice Number", "Bank Name", "Account Number", "Currency", "Amount",
          "Purpose"} |->
     CASE k = "Invoice Number" -> INV_5
       [] k = "Bank Name"      -> BANDHAN_BANK
       [] k = "Account Number" -> Masked_8
       [] k = "Currency"       -> INR
       [] k = "Amount"         -> Amount_9500_00
       [] k = "Purpose"        -> Demo]

FormVariants ==
  {<<"Invoice Number", <<>> >>, <<"Bank Name", BANDHAN_BANK_LIMITED>>,
   <<"Account Number", Masked_4>>, <<"Amount", Amount_9499_50>>,
   <<"Amount", <<"a">> >>, <<"Amount", <<>> >>}

CapturesTC06 == OneOff(FormBase, DOMAIN FormBase, FormVariants) \cup {EmptyDict}

\* the dicts a caller hands to set_tc03_data
TC03Dicts ==
  InvoiceDicts \cup {Del(InvoiceData(Bandhan_Bank, Masked_8, Amount_9500), "Amount"),
                     Put(InvoiceData(Bandhan_Bank, Masked_8, Amount_9500), "Amount", <<"a">>)}

\* expected_data of main() of the standalone TC_04
MainExpected ==
  << <<"Invoice Number", INV_5>>, <<"Bill From Name", SURAJ_KUMAAR>>,
     <<"Bill From Country", India>>, <<"Bank Name", BANDHAN_BANK>>,
     <<"Account Number", Masked_8>>, <<"Currency", INR>>, <<"Country", India>>,
     <<"Amount", Amount_9500_00>>, <<"Document Name", Test_png>> >>

\* default_expected of run_test, with self.invoice_number
default_expected ==
  [i \in 1..Len(FieldsTC04) |->
     <<FieldsTC04[i],
       IF FieldsTC04[i] = "Invoice Number" THEN INV_5 ELSE DefaultExpected(FieldsTC04[i])>>]

\* the expected_data arguments of run_test: None or {} (the default is used),
\* the dict of main(), and dicts of other callers
ExpectedArgs ==
  {<<>>, MainExpected,
   << <<"Amount", Amount_9_500_00>>, <<"Bank Name", Bandhan_Bank>> >>,
   << <<"Country", <<>> >>, <<"Invoice Number", INV_50>>, <<"Amount", <<"a">> >> >>}


(***************************************************************************)
(* The whole run of a script.  A call into the browser (navigation, a      *)
(* locator, page.evaluate, a screenshot) or into the file system can       *)
(* raise; each place where the code lets that change the outcome is a      *)
(* branch of the action.                                                   *)
(***************************************************************************)
RunInit ==
  /\ script \in {"suite", "alone_tc04", "alone_tc06"}
  /\ pc = "main"
  /\ field = "none"
  /\ expected_given = FALSE
  /\ invoice_data = Absent
  /\ pageText = <<>>
  /\ captured_data = Absent
  /\ verifier = "none"
  /\ verification_results = <<>>
  /\ RunIdle

\* a test case that returns True whatever it logged
Log_ReturnsTrue(tc_id, status, details, value, next) ==
  /\ test_results' =
       Append(test_results, [tc_id |-> tc_id, status |-> status, details |-> details])
  /\ returns' = Append(returns, [call |-> tc_id, value |-> TRUE])
  /\ pc' = next
  /\ UNCHANGED raised

\* _log_result(tc_id, scenario, status, details, ...) followed by return value;
\* details is kept as the kind of message: "passed", "all matched",
\* "mismatched fields", or "exception" for str(e)
Log(tc_id, status, details, value, next) ==
  /\ test_results' =
       Append(test_results, [tc_id |-> tc_id, status |-> status, details |-> details])
  /\ returns' = Append(returns, [call |-> tc_id, value |-> value])
  /\ pc' = next
  /\ UNCHANGED raised

\* the except clause of a test case: screenshot, log FAILED, return False;
\* an exception of the screenshot leaves the test case and run_all_tests
Handler(tc_id, next) ==
  \/ Log(tc_id, "FAILED", "exception", FALSE, next)
  \/ /\ raised' = tc_id
     /\ pc' = "teardown"
     /\ UNCHANGED <<test_results, returns>>

\* run_all_tests: where the run continues after the result of a test case
\* TC_02 run whatever TC_01 returned
AfterTC01_Ungated(tc01_result) == IF tc01_result \/ TRUE THEN "tc_02" ELSE "report"

AfterTC01(tc01_result) == IF tc01_result THEN "tc_02" ELSE "report"
AfterTC02(tc02_result) == IF tc02_result THEN "tc_03" ELSE "report"
AfterTC03(tc03_result) == IF tc03_result THEN "tc_04" ELSE "report"
\* TC_05 gated on the result of TC_04, as TC_02..TC_04 are gated
AfterTC04_Gated(tc04_result) == IF tc04_result THEN "tc_05" ELSE "report"

AfterTC04(tc04_result) == IF tc04_result \/ TRUE THEN "tc_05" ELSE "report"
AfterTC05(tc05_result) == IF tc05_result \/ TRUE THEN "tc_06" ELSE "report"

\* setup with a _load_test_data that reports the error and lets the run go on
setup_ContinuesAfterError ==
  /\ pc = "main"
  /\ script = "suite"
  /\ \/ pc' = "tc_01" /\ UNCHANGED raised /\ page' = "open"
     \/ pc' = "tc_01" /\ raised' = "setup" /\ page' = "open"
  /\ UNCHANGED <<script, fieldVars, tc03_invoice_data, expected_data, tc04_captured_data,
                 tc04_verification_results, tc05_captured_data,
                 tc05_verification_results, tc06_form_data, tc06_verification_results,
                 test_results, test_result, returns, console, paid, reports, teardowns>>
  /\ UNCHANGED <<invoice_number, visible, email_input>>

\* run_all_tests: self.setup() creates the page, then loads the test data;
\* _load_test_data re-raises what it catches
setup ==
  /\ pc = "main"
  /\ script = "suite"
  /\ \/ pc' = "tc_01" /\ UNCHANGED raised /\ page' = "open"
     \/ \* the browser does not start, or _load_test_data raises
        pc' = "teardown" /\ raised' = "setup" /\ page' \in {"None", "open"}
  /\ UNCHANGED <<script, fieldVars, tc03_invoice_data, expected_data, tc04_captured_data,
                 tc04_verification_results, tc05_captured_data,
                 tc05_verification_results, tc06_form_data, tc06_verification_results,
                 test_results, test_result, returns, console, paid, reports, teardowns>>
  /\ UNCHANGED <<invoice_number, visible, email_input>>

tc_01_url_verification ==
  /\ pc = "tc_01"
  /\ script = "suite"
  /\ \/ Log("TC_01", "PASSED", "passed", TRUE, AfterTC01(TRUE))
     \/ Handler("TC_01", AfterTC01(FALSE))
  /\ UNCHANGED <<script, fieldVars, tc03_invoice_data, expected_data, tc04_captured_data,
                 tc04_verification_results, tc05_captured_data,
                 tc05_verification_results, tc06_form_data, tc06_verification_results,
                 test_result, console, paid, reports, teardowns>>
  /\ UNCHANGED pageVars

\* email_selectors of tc_02_login, in their listed order
email_selectors ==
  <<"input[placeholder='you@example.com']", "input[placeholder*='email']",
    "input[placeholder*='Email']", "input[type='email']", "input[type='text']">>

\* what one pass of the selector loop meets: is_visible returned True or
\* False, is_visible raised, or page.locator(selector).first raised
SelectorOutcomes == {"visible", "hidden", "raises", "no locator"}

\* the for loop of tc_02_login from selector i on; held is email_input (0 for
\* None): the locator is assigned before its visibility is tested
RECURSIVE email_loop(_, _, _)
email_loop(outcomes, i, held) ==
  IF i > Len(outcomes) THEN held
  ELSE IF outcomes[i] = "no locator" THEN email_loop(outcomes, i + 1, held)
  ELSE IF outcomes[i] = "visible" THEN i
  ELSE email_loop(outcomes, i + 1, i)

\* the except clause of a test case for an exception with message details
HandlerOf(tc_id, details, next) ==
  \/ Log(tc_id, "FAILED", details, FALSE, next)
  \/ /\ raised' = tc_id
     /\ pc' = "teardown"
     /\ UNCHANGED <<test_results, returns>>

\* suite TC_02 up to the e-mail field: navigation and the login link, then
\* the selector loop and "if email_input: ... else: raise"
tc_02_login ==
  /\ pc = "tc_02"
  /\ script = "suite"
  /\ \/ /\ Handler("TC_02", AfterTC02(FALSE))
        /\ UNCHANGED <<visible, email_input>>
     \/ \E outcomes \in [1..Len(email_selectors) -> SelectorOutcomes] :
          /\ visible' = outcomes
          /\ email_input' = email_loop(outcomes, 1, 0)
          /\ IF email_input' = 0
             THEN HandlerOf("TC_02", "Could not find email input field", AfterTC02(FALSE))
             ELSE /\ pc' = "tc_02_fill"
                  /\ UNCHANGED <<test_results, returns, raised>>
  /\ UNCHANGED <<script, fieldVars, tc03_invoice_data, expected_data, tc04_captured_data,
                 tc04_verification_results, tc05_captured_data,
                 tc05_verification_results, tc06_form_data, tc06_verification_results,
                 test_result, console, paid, reports, teardowns, page, invoice_number>>

\* suite TC_02 from email_input.fill(username) on: the fill, the password,
\* the submit and the wait for the dashboard; the method's locals end with it
tc_02_login_fill ==
  /\ pc = "tc_02_fill"
  /\ script = "suite"
  /\ \/ Log("TC_02", "PASSED", "passed", TRUE, AfterTC02(TRUE))
     \/ Handler("TC_02", AfterTC02(FALSE))
  /\ visible' = <<>>
  /\ email_input' = 0
  /\ UNCHANGED <<script, fieldVars, tc03_invoice_data, expected_data, tc04_captured_data,
                 tc04_verification_results, tc05_captured_data,
                 tc05_verification_results, tc06_form_data, tc06_verification_results,
                 test_result, console, paid, reports, teardowns, page, invoice_number>>

\* suite TC_03: on success self.invoice_data holds the invoice as raised; a
\* failure happens before or after self.invoice_data is stored
tc_03 ==
  /\ pc = "tc_03"
  /\ script = "suite"
  /\ \/ /\ tc03_invoice_data' \in InvoiceDicts
        /\ Log("TC_03", "PASSED", "passed", TRUE, AfterTC03(TRUE))
     \/ /\ tc03_invoice_data' \in InvoiceDicts \cup {EmptyDict}
        /\ Handler("TC_03", AfterTC03(FALSE))
  /\ UNCHANGED <<script, fieldVars, expected_data, tc04_captured_data,
                 tc04_verification_results, tc05_captured_data,
                 tc05_verification_results, tc06_form_data, tc06_verification_results,
                 test_result, console, paid, reports, teardowns>>
  /\ UNCHANGED pageVars

\* suite TC_04: find the invoice, open its details, capture, verify, go back,
\* log
tc_04 ==
  /\ pc = "tc_04"
  /\ script = "suite"
  /\ \/ \* steps 1-3 raise (no request id, invoice not found, no navigation)
        /\ Handler("TC_04", AfterTC04(FALSE))
        /\ UNCHANGED <<tc04_captured_data, tc04_verification_results, console>>
     \/ \E captured \in CapturesTC04 :
          LET results == PassSuiteTC04(tc03_invoice_data, captured)
          IN /\ tc04_captured_data' = captured
             /\ tc04_verification_results' = results
             /\ console' = Append(console, Summary("TC_04", results))
             /\ \/ \* self.page.go_back() raises
                   Handler("TC_04", AfterTC04(FALSE))
                \/ /\ overall_status(results) = "PASSED"
                   /\ Log("TC_04", "PASSED", "all matched", TRUE, AfterTC04(TRUE))
                \/ /\ overall_status(results) # "PASSED"
                   /\ Log("TC_04", "FAILED", "mismatched fields", FALSE, AfterTC04(FALSE))
  /\ UNCHANGED <<script, fieldVars, tc03_invoice_data, expected_data, tc05_captured_data,
                 tc05_verification_results, tc06_form_data, tc06_verification_results,
                 test_result, paid, reports, teardowns>>
  /\ UNCHANGED pageVars

\* tc_05 with a verifier that falls back to what tc_04 captured for the
\* fields its own capture lacks
tc_05_CarryOver ==
  /\ pc = "tc_05"
  /\ script = "suite"
  /\ \/ /\ Handler("TC_05", AfterTC05(FALSE))
        /\ UNCHANGED <<tc05_captured_data, tc05_verification_results, console>>
     \/ \E captured \in CapturesTC05 :
          LET merged == [k \in DOMAIN captured \cup DOMAIN tc04_captured_data |->
                           IF k \in DOMAIN captured THEN captured[k]
                           ELSE tc04_captured_data[k]]
              results == PassSuiteTC05(tc03_invoice_data, merged)
          IN /\ tc05_captured_data' = captured
             /\ tc05_verification_results' = results
             /\ console' = Append(console, Summary("TC_05", results))
             /\ \/ /\ overall_status(results) = "PASSED"
                   /\ Log("TC_05", "PASSED", "all matched", TRUE, AfterTC05(TRUE))
                \/ /\ overall_status(results) # "PASSED"
                   /\ Log("TC_05", "FAILED", "mismatched fields", FALSE, AfterTC05(FALSE))
  /\ UNCHANGED <<script, fieldVars, tc03_invoice_data, expected_data, tc04_captured_data,
                 tc04_verification_results, tc06_form_data, tc06_verification_results,
                 test_result, paid, reports, teardowns>>
  /\ UNCHANGED pageVars

\* suite TC_05: log in as client, open the invoice, capture, verify, log
tc_05 ==
  /\ pc = "tc_05"
  /\ script = "suite"
  /\ \/ \* steps 1-5 raise
        /\ Handler("TC_05", AfterTC05(FALSE))
        /\ UNCHANGED <<tc05_captured_data, tc05_verification_results, console>>
     \/ \E captured \in CapturesTC05 :
          LET results == PassSuiteTC05(tc03_invoice_data, captured)
          IN /\ tc05_captured_data' = captured
             /\ tc05_verification_results' = results
             /\ console' = Append(console, Summary("TC_05", results))
             /\ \/ /\ overall_status(results) = "PASSED"
                   /\ Log("TC_05", "PASSED", "all matched", TRUE, AfterTC05(TRUE))
                \/ /\ overall_status(results) # "PASSED"
                   /\ Log("TC_05", "FAILED", "mismatched fields", FALSE, AfterTC05(FALSE))
  /\ UNCHANGED <<script, fieldVars, tc03_invoice_data, expected_data, tc04_captured_data,
                 tc04_verification_results, tc06_form_data, tc06_verification_results,
                 test_result, paid, reports, teardowns>>
  /\ UNCHANGED pageVars

\* tc_06 with the verdict of tc_04 and tc_05: mismatched fields fail the test
\* case before 'Pay Now' is submitted
tc_06_FailsOnMismatch ==
  /\ pc = "tc_06"
  /\ script = "suite"
  /\ \/ /\ Handler("TC_06", "report")
        /\ UNCHANGED <<tc06_form_data, tc06_verification_results, paid>>
     \/ \E captured \in CapturesTC06 :
          LET results == PassTC06(tc03_invoice_data, captured)
          IN /\ tc06_form_data' = captured
             /\ tc06_verification_results' = results
             /\ \/ /\ UNCHANGED paid
                   /\ Handler("TC_06", "report")
                \/ /\ overall_status(results) # "PASSED"
                   /\ UNCHANGED paid
                   /\ Log("TC_06", "FAILED", "mismatched fields", FALSE, "report")
                \/ /\ overall_status(results) = "PASSED"
                   /\ paid' = TRUE
                   /\ Handler("TC_06", "report")
                \/ /\ overall_status(results) = "PASSED"
                   /\ paid' = TRUE
                   /\ Log("TC_06", "PASSED", "passed", TRUE, "report")
  /\ UNCHANGED <<script, fieldVars, tc03_invoice_data, expected_data, tc04_captured_data,
                 tc04_verification_results, tc05_captured_data,
                 tc05_verification_results, test_result, console, reports, teardowns>>
  /\ UNCHANGED pageVars

\* suite TC_06: approve, open the pay form, capture, verify, pay, log
tc_06 ==
  /\ pc = "tc_06"
  /\ script = "suite"
  /\ \/ \* the steps before the capture raise
        /\ Handler("TC_06", "report")
        /\ UNCHANGED <<tc06_form_data, tc06_verification_results, paid>>
     \/ \E captured \in CapturesTC06 :
          /\ tc06_form_data' = captured
          /\ tc06_verification_results' = PassTC06(tc03_invoice_data, captured)
          /\ \/ \* 'Pay Now' is not visible
                /\ UNCHANGED paid
                /\ Handler("TC_06", "report")
             \/ \* paid, but no success popup
                /\ paid' = TRUE
                /\ Handler("TC_06", "report")
             \/ /\ paid' = TRUE
                /\ Log("TC_06", "PASSED", "passed", TRUE, "report")
  /\ UNCHANGED <<script, fieldVars, tc03_invoice_data, expected_data, tc04_captured_data,
                 tc04_verification_results, tc05_captured_data,
                 tc05_verification_results, test_result, console, reports, teardowns>>
  /\ UNCHANGED pageVars

\* generate_report: passed, failed, total and pass_rate of the report; the
\* rate is kept as the pair <<passed * 100, total>> of the division the code
\* makes, and as 0 when there is nothing to divide by
passed(results) == Cardinality({i \in 1..Len(results) : results[i].status = "PASSED"})
failed(results) == Cardinality({i \in 1..Len(results) : results[i].status = "FAILED"})
total(results) == Len(results)
pass_rate(results) ==
  IF total(results) > 0 THEN <<passed(results) * 100, total(results)>> ELSE 0

\* generate_report outside a try/finally: its exception ends the run at once
generate_report_SkipsTeardown ==
  /\ pc = "report"
  /\ script = "suite"
  /\ \/ reports' = reports + 1 /\ UNCHANGED raised /\ pc' = "teardown"
     \/ raised' = "generate_report" /\ UNCHANGED reports /\ pc' = "end"
  /\ UNCHANGED <<script, fieldVars, tc03_invoice_data, expected_data, tc04_captured_data,
                 tc04_verification_results, tc05_captured_data,
                 tc05_verification_results, tc06_form_data, tc06_verification_results,
                 test_results, test_result, returns, console, paid, teardowns>>
  /\ UNCHANGED pageVars

\* run_all_tests: self.generate_report()
generate_report ==
  /\ pc = "report"
  /\ script = "suite"
  /\ \/ reports' = reports + 1 /\ UNCHANGED raised
     \/ raised' = "generate_report" /\ UNCHANGED reports
  /\ pc' = "teardown"
  /\ UNCHANGED <<script, fieldVars, tc03_invoice_data, expected_data, tc04_captured_data,
                 tc04_verification_results, tc05_captured_data,
                 tc05_verification_results, tc06_form_data, tc06_verification_results,
                 test_results, test_result, returns, console, paid, teardowns>>
  /\ UNCHANGED pageVars

\* run_all_tests: finally: self.teardown()
teardown ==
  /\ pc = "teardown"
  /\ script = "suite"
  /\ teardowns' = teardowns + 1
  /\ pc' = "end"
  /\ UNCHANGED <<script, fieldVars, tc03_invoice_data, expected_data, tc04_captured_data,
                 tc04_verification_results, tc05_captured_data,
                 tc05_verification_results, tc06_form_data, tc06_verification_results,
                 test_results, test_result, returns, console, paid, reports, raised>>
  /\ UNCHANGED pageVars

\* the invoice_number arguments of TC04VerifyPendingReceivables: None, or the
\* invoice number main() passes
InvoiceNumberArgs == {Absent, INV_5}

\* what a visibility test of a locator meets: is_visible returned True or
\* False, or the call (or a wait or page.evaluate before it) raised
LocatorOutcomes == {"visible", "hidden", "raises"}

\* _find_invoice_in_receivables with self.invoice_number = number, on a page
\* where the tests of the invoice text, of the 'Pending Receivables' section
\* and of the invoice row meet seen[1], seen[2] and seen[3]
find_invoice_in_receivables(number, seen) ==
  IF seen[1] = "raises" THEN FALSE
  ELSE IF number # Absent /\ seen[1] = "visible" THEN TRUE
  ELSE IF seen[2] = "raises" THEN FALSE
  ELSE IF seen[2] = "visible" /\ number # Absent /\ seen[3] = "raises" THEN FALSE
  ELSE IF seen[2] = "visible" /\ number # Absent /\ seen[3] = "visible" THEN TRUE
  ELSE number # Absent

\* standalone TC_04, run_test(expected_data) of an object constructed with
\* invoice_number: self.setup() creates the page or raises before it does
run_test_setup ==
  /\ pc = "main"
  /\ script = "alone_tc04"
  /\ expected_data' \in ExpectedArgs
  /\ invoice_number' \in InvoiceNumberArgs
  /\ \/ page' = "open" /\ pc' = "step_1"
     \/ page' = "None" /\ pc' = "except"
  /\ UNCHANGED <<script, fieldVars, tc03_invoice_data, tc04_captured_data,
                 tc04_verification_results, tc05_captured_data,
                 tc05_verification_results, tc06_form_data, tc06_verification_results,
                 test_results, test_result, returns, console, paid, reports, teardowns,
                 raised, visible, email_input>>

\* standalone TC_04: a step method returned value; on True the screenshot
\* that follows is taken or raises, on False run_test raises
StepReturns(step, value, next) ==
  /\ returns' = Append(returns, [call |-> step, value |-> value])
  /\ pc' \in (IF value THEN {next, "except"} ELSE {"except"})

\* standalone TC_04, step 1: _login
run_test_step_1 ==
  /\ pc = "step_1"
  /\ script = "alone_tc04"
  /\ \E value \in BOOLEAN : StepReturns("_login", value, "step_2")
  /\ UNCHANGED <<script, fieldVars, tc03_invoice_data, expected_data, tc04_captured_data,
                 tc04_verification_results, tc05_captured_data,
                 tc05_verification_results, tc06_form_data, tc06_verification_results,
                 test_results, test_result, console, paid, reports, teardowns,
                 raised, pageVars>>

\* standalone TC_04, step 2: _find_invoice_in_receivables on the dashboard
run_test_step_2 ==
  /\ pc = "step_2"
  /\ script = "alone_tc04"
  /\ \E seen \in [1..3 -> LocatorOutcomes] :
       /\ visible' = seen
       /\ StepReturns("_find_invoice_in_receivables",
                      find_invoice_in_receivables(invoice_number, seen), "step_3")
  /\ UNCHANGED <<script, fieldVars, tc03_invoice_data, expected_data, tc04_captured_data,
                 tc04_verification_results, tc05_captured_data,
                 tc05_verification_results, tc06_form_data, tc06_verification_results,
                 test_results, test_result, console, paid, reports, teardowns,
                 raised, page, invoice_number, email_input>>

\* standalone TC_04, step 3: _click_eye_icon; the page moves on to the
\* invoice details
run_test_step_3 ==
  /\ pc = "step_3"
  /\ script = "alone_tc04"
  /\ \E value \in BOOLEAN : StepReturns("_click_eye_icon", value, "step_4")
  /\ visible' = <<>>
  /\ UNCHANGED <<script, fieldVars, tc03_invoice_data, expected_data, tc04_captured_data,
                 tc04_verification_results, tc05_captured_data,
                 tc05_verification_results, tc06_form_data, tc06_verification_results,
                 test_results, test_result, console, paid, reports, teardowns,
                 raised, page, invoice_number, email_input>>

\* step 4 with a _capture_invoice_details that lets the exception of the
\* capture reach run_test
run_test_step_4_CaptureRaises ==
  /\ pc = "step_4"
  /\ script = "alone_tc04"
  /\ \/ tc04_captured_data' \in CapturesAloneTC04 /\ pc' = "step_5"
     \/ UNCHANGED tc04_captured_data /\ pc' = "except"
  /\ UNCHANGED <<script, fieldVars, tc03_invoice_data, expected_data,
                 tc04_verification_results, tc05_captured_data,
                 tc05_verification_results, tc06_form_data, tc06_verification_results,
                 test_results, test_result, returns, console, paid, reports, teardowns,
                 raised>>
  /\ UNCHANGED pageVars

\* standalone TC_04, step 4: _capture_invoice_details stores the captured
\* dict, or catches the exception of the capture and stores nothing
run_test_step_4 ==
  /\ pc = "step_4"
  /\ script = "alone_tc04"
  /\ \/ tc04_captured_data' \in CapturesAloneTC04
     \/ UNCHANGED tc04_captured_data
  /\ pc' = "step_5"
  /\ UNCHANGED <<script, fieldVars, tc03_invoice_data, expected_data,
                 tc04_verification_results, tc05_captured_data,
                 tc05_verification_results, tc06_form_data, tc06_verification_results,
                 test_results, test_result, returns, console, paid, reports, teardowns,
                 raised>>
  /\ UNCHANGED pageVars

\* standalone TC_04, step 5: _verify_data(expected_data or default_expected)
run_test_step_5 ==
  /\ pc = "step_5"
  /\ script = "alone_tc04"
  /\ tc04_verification_results' =
       PassAloneTC04(IF expected_data # <<>> THEN expected_data ELSE default_expected,
                     tc04_captured_data)
  /\ pc' = "step_6"
  /\ UNCHANGED <<script, fieldVars, tc03_invoice_data, expected_data, tc04_captured_data,
                 tc05_captured_data, tc05_verification_results, tc06_form_data,
                 tc06_verification_results, test_results, test_result, returns, console,
                 paid, reports, teardowns, raised>>
  /\ UNCHANGED pageVars

\* standalone TC_04, step 6 and the result: _generate_report, test_result,
\* the [RESULT] lines, return
run_test_step_6 ==
  /\ pc = "step_6"
  /\ script = "alone_tc04"
  /\ \/ /\ reports' = reports + 1
        /\ test_result' = overall_status(tc04_verification_results)
        /\ console' = Append(console, Summary("TC_04", tc04_verification_results))
        /\ returns' = Append(returns, [call |-> "run_test", value |-> test_result' = "PASSED"])
        /\ pc' = "teardown"
     \/ \* _generate_report raises
        /\ pc' = "except"
        /\ UNCHANGED <<reports, test_result, console, returns>>
  /\ UNCHANGED <<script, fieldVars, tc03_invoice_data, expected_data, tc04_captured_data,
                 tc04_verification_results, tc05_captured_data,
                 tc05_verification_results, tc06_form_data, tc06_verification_results,
                 test_results, paid, teardowns, raised>>
  /\ UNCHANGED pageVars

\* standalone TC_04, except: screenshot, _generate_report, return False
run_test_except ==
  /\ pc = "except"
  /\ script = "alone_tc04"
  /\ \/ /\ page # "None"
        /\ reports' = reports + 1
        /\ returns' = Append(returns, [call |-> "run_test", value |-> FALSE])
        /\ UNCHANGED raised
     \/ \* the screenshot (always, when self.page is None) or _generate_report
        \* raises
        /\ raised' = "run_test"
        /\ UNCHANGED <<reports, returns>>
  /\ pc' = "teardown"
  /\ UNCHANGED <<script, fieldVars, tc03_invoice_data, expected_data, tc04_captured_data,
                 tc04_verification_results, tc05_captured_data,
                 tc05_verification_results, tc06_form_data, tc06_verification_results,
                 test_results, test_result, console, paid, teardowns>>
  /\ UNCHANGED pageVars

\* standalone TC_04, finally: self.teardown()
run_test_finally ==
  /\ pc = "teardown"
  /\ script = "alone_tc04"
  /\ teardowns' = teardowns + 1
  /\ pc' = "end"
  /\ UNCHANGED <<script, fieldVars, tc03_invoice_data, expected_data, tc04_captured_data,
                 tc04_verification_results, tc05_captured_data,
                 tc05_verification_results, tc06_form_data, tc06_verification_results,
                 test_results, test_result, returns, console, paid, reports, raised>>
  /\ UNCHANGED pageVars

\* standalone TC_06, run(): a step method returned True and run() goes on
StepSucceeds(step, next) ==
  /\ returns' = Append(returns, [call |-> step, value |-> TRUE])
  /\ pc' = next
  /\ UNCHANGED test_result

\* standalone TC_06, run(): a step method returned False, or raised out of
\* its except clause into the except clause of run(); either way
\* self.test_result = "FAILED" and run() returns False
StepFails(step) ==
  /\ \/ returns' = returns \o <<[call |-> step, value |-> FALSE],
                               [call |-> "run", value |-> FALSE]>>
     \/ returns' = Append(returns, [call |-> "run", value |-> FALSE])
  /\ test_result' = "FAILED"
  /\ pc' = "finally"

\* standalone TC_06, run(): with or without set_tc03_data before it; setup
\* (an exception of setup is caught by run()) and step 1, login_as_client
run_step_1 ==
  /\ pc = "main"
  /\ script = "alone_tc06"
  /\ tc03_invoice_data' \in TC03Dicts \cup {EmptyDict}
  /\ \/ StepSucceeds("login_as_client", "step_2") /\ page' = "open"
     \/ StepFails("login_as_client") /\ page' \in {"None", "open"}
  /\ UNCHANGED <<script, fieldVars, expected_data, tc04_captured_data,
                 tc04_verification_results, tc05_captured_data,
                 tc05_verification_results, tc06_form_data, tc06_verification_results,
                 test_results, console, paid, reports, teardowns, raised>>
  /\ UNCHANGED <<invoice_number, visible, email_input>>

\* standalone TC_06, step 2: find_and_view_invoice
run_step_2 ==
  /\ pc = "step_2"
  /\ script = "alone_tc06"
  /\ \/ StepSucceeds("find_and_view_invoice", "step_3")
     \/ StepFails("find_and_view_invoice")
  /\ UNCHANGED <<script, fieldVars, tc03_invoice_data, expected_data, tc04_captured_data,
                 tc04_verification_results, tc05_captured_data,
                 tc05_verification_results, tc06_form_data, tc06_verification_results,
                 test_results, console, paid, reports, teardowns, raised>>
  /\ UNCHANGED pageVars

\* step 3 of a run() that goes on to step 4 when approve_invoice returned False
run_step_3_ContinuesOnFailure ==
  /\ pc = "step_3"
  /\ script = "alone_tc06"
  /\ \E ok \in BOOLEAN :
       returns' = Append(returns, [call |-> "approve_invoice", value |-> ok])
  /\ pc' = "step_4"
  /\ UNCHANGED <<script, fieldVars, tc03_invoice_data, expected_data, tc04_captured_data,
                 tc04_verification_results, tc05_captured_data,
                 tc05_verification_results, tc06_form_data, tc06_verification_results,
                 test_results, test_result, console, paid, reports, teardowns, raised>>
  /\ UNCHANGED pageVars

\* standalone TC_06, step 3: approve_invoice
run_step_3 ==
  /\ pc = "step_3"
  /\ script = "alone_tc06"
  /\ \/ StepSucceeds("approve_invoice", "step_4")
     \/ StepFails("approve_invoice")
  /\ UNCHANGED <<script, fieldVars, tc03_invoice_data, expected_data, tc04_captured_data,
                 tc04_verification_results, tc05_captured_data,
                 tc05_verification_results, tc06_form_data, tc06_verification_results,
                 test_results, console, paid, reports, teardowns, raised>>
  /\ UNCHANGED pageVars

\* standalone TC_06, step 4: navigate_to_pay_invoice
run_step_4 ==
  /\ pc = "step_4"
  /\ script = "alone_tc06"
  /\ \/ StepSucceeds("navigate_to_pay_invoice", "step_5")
     \/ StepFails("navigate_to_pay_invoice")
  /\ UNCHANGED <<script, fieldVars, tc03_invoice_data, expected_data, tc04_captured_data,
                 tc04_verification_results, tc05_captured_data,
                 tc05_verification_results, tc06_form_data, tc06_verification_results,
                 test_results, console, paid, reports, teardowns, raised>>
  /\ UNCHANGED pageVars

\* standalone TC_06, step 5: capture_and_verify_form_data
run_step_5 ==
  /\ pc = "step_5"
  /\ script = "alone_tc06"
  /\ \/ \E captured \in CapturesTC06 :
          /\ tc06_form_data' = captured
          /\ tc06_verification_results' =
               IF DOMAIN tc03_invoice_data # {}
               THEN PassTC06(tc03_invoice_data, captured)
               ELSE tc06_verification_results
          /\ StepSucceeds("capture_and_verify_form_data", "step_6")
     \/ \* the capture raises: return False
        /\ StepFails("capture_and_verify_form_data")
        /\ UNCHANGED <<tc06_form_data, tc06_verification_results>>
  /\ UNCHANGED <<script, fieldVars, tc03_invoice_data, expected_data, tc04_captured_data,
                 tc04_verification_results, tc05_captured_data,
                 tc05_verification_results, test_results, console, paid, reports,
                 teardowns, raised>>
  /\ UNCHANGED pageVars

\* standalone TC_06, step 6: complete_payment clicks 'Pay Now' and waits for
\* the success popup; it fails before the click or after it
run_step_6 ==
  /\ pc = "step_6"
  /\ script = "alone_tc06"
  /\ \/ /\ paid' = TRUE
        /\ StepSucceeds("complete_payment", "step_7")
     \/ /\ paid' \in {FALSE, TRUE}
        /\ StepFails("complete_payment")
  /\ UNCHANGED <<script, fieldVars, tc03_invoice_data, expected_data, tc04_captured_data,
                 tc04_verification_results, tc05_captured_data,
                 tc05_verification_results, tc06_form_data, tc06_verification_results,
                 test_results, console, reports, teardowns, raised>>
  /\ UNCHANGED pageVars

\* standalone TC_06, step 7: close_popup never raises and its result is not
\* looked at; self.test_result = "PASSED"; return True
run_step_7 ==
  /\ pc = "step_7"
  /\ script = "alone_tc06"
  /\ \E closed \in BOOLEAN :
       returns' = returns \o <<[call |-> "close_popup", value |-> closed],
                               [call |-> "run", value |-> TRUE]>>
  /\ test_result' = "PASSED"
  /\ pc' = "finally"
  /\ UNCHANGED <<script, fieldVars, tc03_invoice_data, expected_data, tc04_captured_data,
                 tc04_verification_results, tc05_captured_data,
                 tc05_verification_results, tc06_form_data, tc06_verification_results,
                 test_results, console, paid, reports, teardowns, raised>>
  /\ UNCHANGED pageVars

\* standalone TC_06, finally: generate_report, teardown
run_finally ==
  /\ pc = "finally"
  /\ script = "alone_tc06"
  /\ \/ /\ reports' = reports + 1
        /\ teardowns' = teardowns + 1
        /\ UNCHANGED raised
     \/ \* generate_report raises
        /\ raised' = "generate_report"
        /\ UNCHANGED <<reports, teardowns>>
  /\ pc' = "end"
  /\ UNCHANGED <<script, fieldVars, tc03_invoice_data, expected_data, tc04_captured_data,
                 tc04_verification_results, tc05_captured_data,
                 tc05_verification_results, tc06_form_data, tc06_verification_results,
                 test_results, test_result, returns, console, paid>>
  /\ UNCHANGED pageVars

RunNext ==
  \/ setup
  \/ tc_01_url_verification
  \/ tc_02_login
  \/ tc_02_login_fill
  \/ tc_03
  \/ tc_04
  \/ tc_05
  \/ tc_06
  \/ generate_report
  \/ teardown
  \/ run_test_setup
  \/ run_test_step_1
  \/ run_test_step_2
  \/ run_test_step_3
  \/ run_test_step_4
  \/ run_test_step_5
  \/ run_test_step_6
  \/ run_test_except
  \/ run_test_finally
  \/ run_step_1
  \/ run_step_2
  \/ run_step_3
  \/ run_step_4
  \/ run_step_5
  \/ run_step_6
  \/ run_step_7
  \/ run_finally

RunSpec == RunInit /\ [][RunNext]_vars


(***************************************************************************)
(* Properties                                                              *)
(***************************************************************************)
\* a verifier has classified the field
Verified == pc = "done" /\ Len(verification_results) = 1

\* the status the verifier gave the field
StatusOf == verification_results[1].status

\* the expected value the verifier compared against
ExpectedOf == verification_results[1].expected

\* the actual value the verifier read: captured_data.get(field, '')
ActualOf == Get(captured_data, <<>>)

TC04Verifiers == {"suite_tc04", "alone_tc04"}
SubstringVerifiers == {"suite_tc05", "suite_tc06", "alone_tc06"}
AmountVerifiers == {"suite_tc04", "suite_tc05", "suite_tc06", "alone_tc06"}
AllVerifiers == TC04Verifiers \cup SubstringVerifiers

\* both strings parse as numbers once the thousands separators are removed
BothNumeric(e, a) == FloatOK(RemoveCommas(e)) /\ FloatOK(RemoveCommas(a))

\* one or more mask characters followed by one or more digits
IsMasked(v) ==
  \E k \in 1..(Len(v) - 1) :
    /\ \A i \in 1..k : v[i] = "*"
    /\ \A i \in (k + 1)..Len(v) : v[i] \in Digits

\* the visible digits of a masked value
VisibleDigits(v) == SelectSeq(v, IsDigit)

\* C1: in the TC_04 verifiers the status is DATA MISSING if and only if the
\* actual value is absent or empty after trimming, whatever the expected value
C1_DataMissingIffActualMissing ==
  (Verified /\ verifier \in TC04Verifiers)
    => (StatusOf = DATA_MISSING <=> Strip(ActualOf) = <<>>)

\* C2: in the substring verifiers a field other than Amount that the page
\* does not show (no entry or an empty entry) and whose expected value is
\* not empty is DATA MISSING
C2_AbsentLabelIsDataMissing ==
  (/\ Verified
   /\ verifier \in SubstringVerifiers
   /\ field # "Amount"
   /\ ActualOf = <<>>
   /\ ExpectedOf # <<>>)
    => StatusOf = DATA_MISSING

C4_ThousandsSeparatorMatches ==
  (/\ Verified
   /\ verifier \in TC04Verifiers
   /\ field = "Amount"
   /\ pageText = <<"Amount Due", "\n">> \o Amount_9_500_00
   /\ ExpectedOf = Amount_9500_00)
    => StatusOf = MATCH

\* C5: for the Amount field, if the expected or the actual value does not
\* parse as a number the status is MATCH when the trimmed, upper-cased
\* strings are equal and MISMATCH otherwise
C5_FallbackToStrings ==
  (/\ Verified
   /\ verifier \in AmountVerifiers
   /\ field = "Amount"
   /\ (verifier \in {"suite_tc06", "alone_tc06"}
         => invoice_data # Absent /\ captured_data # Absent)
   /\ ~BothNumeric(ExpectedOf, ActualOf))
    => StatusOf = IF Upper(Strip(ExpectedOf)) = Upper(Strip(ActualOf))
                  THEN MATCH ELSE MISMATCH

\* C5 witness: the unparseable amounts 'a' and 'A ' were classified MATCH
C5_Witness ==
  /\ Verified
  /\ verifier = "alone_tc06"
  /\ field = "Amount"
  /\ invoice_data = <<"a">>
  /\ captured_data = <<"A", " ">>
  /\ StatusOf = MATCH

\* C6: the Amount comparison is symmetric: exchanging the expected and the
\* actual value gives the same status
C6_AmountSymmetric ==
  (Verified /\ verifier \in AmountVerifiers /\ field = "Amount")
    => StatusOf =
         CASE verifier = "suite_tc04" ->
                VerifySuiteTC04(field, ExpectedDataSuiteTC04(field, captured_data),
                                invoice_data)
           [] verifier = "suite_tc05" ->
                VerifySuiteTC05(field, ExpectedDataSuiteTC05(field, captured_data),
                                invoice_data)
           [] verifier = "suite_tc06" ->
                VerifySuiteTC06(field, captured_data, invoice_data)
           [] verifier = "alone_tc06" ->
                VerifyAloneTC06(field, captured_data, invoice_data)

\* C6 witness: two different spellings of one amount were compared
C6_Witness ==
  /\ Verified
  /\ verifier = "suite_tc04"
  /\ field = "Amount"
  /\ invoice_data = Amount_9500
  /\ captured_data = Amount_9_500_00
  /\ StatusOf = MATCH


\* C7 as stated: in every verifier a field other than Amount with a
\* non-empty actual value is MATCH if the normalized expected value is a
\* substring of the normalized actual value or vice versa, and MISMATCH
\* otherwise
C7_SubstringEverywhere ==
  (/\ Verified
   /\ verifier \in AllVerifiers
   /\ field # "Amount"
   /\ Strip(ActualOf) # <<>>)
    => StatusOf =
         IF \/ IsSubstring(Upper(Strip(ExpectedOf)), Upper(Strip(ActualOf)))
            \/ IsSubstring(Upper(Strip(ActualOf)), Upper(Strip(ExpectedOf)))
         THEN MATCH ELSE MISMATCH

\* C7 as amended: in the substring verifiers (suite tc05, suite tc06,
\* standalone TC_06) a field other than Amount with an actual value that is
\* not empty after trimming is MATCH if the normalized expected value is a
\* substring of the normalized actual value or vice versa, and MISMATCH
\* otherwise, except that the two TC_06 verifiers give MISMATCH when the
\* normalized expected value is empty
C7_SubstringInSubstringVerifiers ==
  (/\ Verified
   /\ verifier \in SubstringVerifiers
   /\ field # "Amount"
   /\ Strip(ActualOf) # <<>>)
    => StatusOf =
         IF /\ \/ IsSubstring(Upper(Strip(ExpectedOf)), Upper(Strip(ActualOf)))
               \/ IsSubstring(Upper(Strip(ActualOf)), Upper(Strip(ExpectedOf)))
            /\ (verifier = "suite_tc05" \/ Strip(ExpectedOf) # <<>>)
         THEN MATCH ELSE MISMATCH

\* C7 witness: 'BANDHAN BANK' against 'BANDHAN BANK LIMITED' was classified
\* MATCH by a substring verifier
C7_Witness ==
  /\ Verified
  /\ verifier = "suite_tc05"
  /\ field = "Bank Name"
  /\ invoice_data = BANDHAN_BANK
  /\ captured_data = BANDHAN_BANK_LIMITED
  /\ StatusOf = MATCH

\* C8: in every verifier two masked account numbers with different numbers
\* of mask characters and the same visible digits (at least 4), one expected
\* and one actual, are MATCH
C8_MaskLengthTolerated ==
  (/\ Verified
   /\ verifier \in AllVerifiers
   /\ field = "Account Number"
   /\ IsMasked(ExpectedOf)
   /\ IsMasked(ActualOf)
   /\ VisibleDigits(ExpectedOf) = VisibleDigits(ActualOf)
   /\ Len(VisibleDigits(ActualOf)) >= 4)
    => StatusOf = MATCH

\* C9: in every verifier a masked account number verified against itself is
\* MATCH
C9_MaskedReflexive ==
  (/\ Verified
   /\ verifier \in AllVerifiers
   /\ field = "Account Number"
   /\ IsMasked(ActualOf)
   /\ ExpectedOf = ActualOf)
    => StatusOf = MATCH

\* C9 witness: '********5678' was verified against itself
C9_Witness ==
  /\ Verified
  /\ verifier = "alone_tc04"
  /\ field = "Account Number"
  /\ invoice_data = Stars(8) \o <<"5", "6", "7", "8">>
  /\ captured_data = invoice_data
  /\ StatusOf = MATCH

\* C10: in the TC_04 verifiers a field other than Amount with a non-empty
\* actual value is MATCH exactly when expected and actual are equal after
\* trimming and upper-casing, and MISMATCH otherwise
C10_ExactCaseInsensitive ==
  (/\ Verified
   /\ verifier \in TC04Verifiers
   /\ field # "Amount"
   /\ ActualOf # <<>>)
    => StatusOf = IF Upper(Strip(ExpectedOf)) = Upper(Strip(ActualOf))
                  THEN MATCH ELSE MISMATCH

\* C10 witness: ' a' against 'A' was classified MATCH
C10_Witness ==
  /\ Verified
  /\ verifier = "alone_tc04"
  /\ field = "Bank Name"
  /\ invoice_data = <<" ", "a">>
  /\ captured_data = <<"A">>
  /\ StatusOf = MATCH

\* the status the verifier that ran gives the Amount for expected e and
\* captured entry a
AmountStatusBy(v, e, a) ==
  CASE v = "suite_tc04" -> VerifySuiteTC04("Amount", ExpectedDataSuiteTC04("Amount", e), a)
    [] v = "suite_tc05" -> VerifySuiteTC05("Amount", ExpectedDataSuiteTC05("Amount", e), a)
    [] v = "suite_tc06" -> VerifySuiteTC06("Amount", e, a)
    [] v = "alone_tc06" -> VerifyAloneTC06("Amount", e, a)

\* C11: normalizing an amount (removing the thousands separators and parsing
\* it as a number) is idempotent: the normalized amount, printed and
\* normalized again, is the same number and prints the same, and verifying
\* the normalized amounts instead of the original ones gives the same status
C11_NormalizeIdempotent ==
  (/\ Verified
   /\ verifier \in AmountVerifiers
   /\ field = "Amount"
   /\ invoice_data # Absent
   /\ captured_data # Absent
   /\ BothNumeric(invoice_data, captured_data))
    => LET once_e == FloatStr(RemoveCommas(invoice_data))
           once_a == FloatStr(RemoveCommas(captured_data))
       IN /\ FloatOK(RemoveCommas(once_e))
          /\ SameNumber(RemoveCommas(once_e), RemoveCommas(invoice_data))
          /\ FloatStr(RemoveCommas(once_e)) = once_e
          /\ FloatOK(RemoveCommas(once_a))
          /\ SameNumber(RemoveCommas(once_a), RemoveCommas(captured_data))
          /\ FloatStr(RemoveCommas(once_a)) = once_a
          /\ StatusOf = AmountStatusBy(verifier, once_e, once_a)

\* C11 witness: '9500' against '9,500.00', which normalize to '9500.0', was
\* classified MATCH
C11_Witness ==
  /\ Verified
  /\ verifier = "suite_tc05"
  /\ field = "Amount"
  /\ invoice_data = Amount_9500
  /\ captured_data = Amount_9_500_00
  /\ FloatStr(RemoveCommas(captured_data)) = <<"9", "5", "0", "0", ".", "0">>
  /\ StatusOf = MATCH

\* the Amount was read from a details page
AmountCaptured ==
  /\ field = "Amount"
  /\ \/ pc = "done" /\ verifier \in {"suite_tc04", "suite_tc05", "alone_tc04"}
     \/ pc = "captured"

\* C16: the candidate patterns of the Amount are tried in a fixed order and
\* the first match wins: the captured Amount is the match of 'Amount Due'
\* whenever that pattern matches, and the match of 'Payment Request' (or
\* nothing) only when 'Amount Due' does not match
C16_FirstPatternWins ==
  AmountCaptured
    => /\ MatchAmount(pageText, "Amount Due") # Absent
            => captured_data = MatchAmount(pageText, "Amount Due")
       /\ MatchAmount(pageText, "Amount Due") = Absent
            => captured_data = MatchAmount(pageText, "Payment Request")

\* C16 witness: both patterns match, 'Payment Request' earlier in the text,
\* and the Amount is the one after 'Amount Due'
C16_Witness ==
  /\ AmountCaptured
  /\ pageText = <<"Payment Request", "\n", "5", "\n", "Amount Due", "\n", "5", "5">>
  /\ MatchAmount(pageText, "Payment Request") = <<"5">>
  /\ captured_data = <<"5", "5">>

\* one side of the Amount comparison is a number within 0.01 of zero
IsZeroAmount(v) ==
  v # Absent /\ FloatOK(RemoveCommas(v)) /\ AbsDiffBelowTolerance(RemoveCommas(v), <<"0">>)

\* one side of the Amount comparison is absent or does not parse as a number
NoAmount(v) == v = Absent \/ ~FloatOK(RemoveCommas(v))

\* C20: in every verifier an Amount that is absent or not numeric is never
\* compared as the number 0: against an amount of 0 on the other side it is
\* never MATCH
C20_MissingAmountIsNotZero ==
  (/\ Verified
   /\ verifier \in AllVerifiers
   /\ field = "Amount"
   /\ \/ NoAmount(captured_data) /\ IsZeroAmount(invoice_data)
      \/ NoAmount(invoice_data) /\ IsZeroAmount(captured_data))
    => StatusOf # MATCH

(***************************************************************************)
(* Properties of the whole run                                             *)
(***************************************************************************)
\* the test case logged a result
HasLogged(tc_id) == \E i \in 1..Len(test_results) : test_results[i].tc_id = tc_id

\* the entry the test case logged
Logged(tc_id) ==
  test_results[CHOOSE i \in 1..Len(test_results) : test_results[i].tc_id = tc_id]

\* the call returned
HasReturned(call) == \E i \in 1..Len(returns) : returns[i].call = call

\* the value the call returned
Returned(call) == returns[CHOOSE i \in 1..Len(returns) : returns[i].call = call].value

\* every result of the list is MATCH
AllMatch(results) == \A i \in 1..Len(results) : results[i].status = MATCH

\* the number of results with status st
CountStatus(results, st) == Cardinality({i \in 1..Len(results) : results[i].status = st})

\* the standalone run_test is over and its verification pass has run
RunTestVerified ==
  script = "alone_tc04" /\ pc = "end" /\ tc04_verification_results # <<>>

\* the suite's test case has run its verification pass and has logged
SuiteVerified(tc_id, results) == script = "suite" /\ HasLogged(tc_id) /\ results # <<>>

\* the [RESULT] lines the pass printed
Printed(tc_id) == console[CHOOSE i \in 1..Len(console) : console[i].tc_id = tc_id]

HasPrinted(tc_id) == \E i \in 1..Len(console) : console[i].tc_id = tc_id

\* expected_data of the suite's tc_04 and tc_05 as the items of the dict
ItemsTC04 ==
  [i \in 1..Len(FieldsTC04) |->
     <<FieldsTC04[i],
       ExpectedDataSuiteTC04(FieldsTC04[i], Entry(tc03_invoice_data, FieldsTC04[i]))>>]

ItemsTC05 ==
  [i \in 1..Len(FieldsTC05) |->
     <<FieldsTC05[i],
       ExpectedDataSuiteTC05(FieldsTC05[i], Entry(tc03_invoice_data, FieldsTC05[i]))>>]

\* the fields of TC_06 with the TC_03 values they are compared with
ItemsTC06 ==
  [i \in 1..Len(fields_to_verify) |->
     <<fields_to_verify[i], Get(Entry(tc03_invoice_data, fields_to_verify[i]), <<>>)>>]

\* the expected-data map the standalone _verify_data is called with
ItemsAloneTC04 == IF expected_data # <<>> THEN expected_data ELSE default_expected

\* the list has one entry per item, in the order of the items, with the
\* field's name, its expected value, the captured value (a blank where
\* nothing was captured) and one of the three statuses
OnePerField(results, items, cap) ==
  /\ Len(results) = Len(items)
  /\ \A i \in 1..Len(items) :
       /\ DOMAIN results[i] = {"field", "expected", "actual", "status"}
       /\ results[i].field = items[i][1]
       /\ results[i].expected = items[i][2]
       /\ IF Entry(cap, items[i][1]) \in {Absent, <<>>}
          THEN results[i].actual \in {Blank, <<>>}
          ELSE results[i].actual = Entry(cap, items[i][1])
       /\ results[i].status \in {MATCH, MISMATCH, DATA_MISSING}

\* the suite's tc_06 pays only after its verification loop
SuitePassTC06Ran == script = "suite" /\ paid

\* the standalone TC_06 has run the verification of step 5
AlonePassTC06Ran ==
  script = "alone_tc06" /\ pc = "step_6" /\ DOMAIN tc03_invoice_data # {}

\* the standalone TC_04 has just run _verify_data
AlonePassTC04Ran == script = "alone_tc04" /\ pc = "step_6"

\* C13: a verification pass never drops a field: its list of results has
\* exactly one entry per field of the expected-data map, in the map's order,
\* each with the field's name, expected value, actual value and status,
\* whatever was captured (an empty capture included)
C13_OneResultPerField ==
  /\ (script = "suite" /\ HasPrinted("TC_04"))
       => OnePerField(tc04_verification_results, ItemsTC04, tc04_captured_data)
  /\ (script = "suite" /\ HasPrinted("TC_05"))
       => OnePerField(tc05_verification_results, ItemsTC05, tc05_captured_data)
  /\ (SuitePassTC06Ran \/ AlonePassTC06Ran)
       => OnePerField(tc06_verification_results, ItemsTC06, tc06_form_data)
  /\ AlonePassTC04Ran
       => OnePerField(tc04_verification_results, ItemsAloneTC04, tc04_captured_data)

\* C13 witness: tc_05 ran on an empty capture and its list has the five
\* fields of the expected data
C13_Witness ==
  /\ script = "suite"
  /\ HasPrinted("TC_05")
  /\ tc05_captured_data = EmptyDict
  /\ Len(tc05_verification_results) = 5
  /\ \A i \in 1..5 : tc05_verification_results[i].field = FieldsTC05[i]

\* the list of results the [RESULT] lines of tc_id were computed from
ResultsOf(tc_id) ==
  IF tc_id = "TC_05" THEN tc05_verification_results ELSE tc04_verification_results

\* C14: the summary counters of a pass partition its results: fields verified
\* = number of results, mismatched/missing = number of results whose status
\* is not MATCH, matched = verified - mismatched/missing = number of results
\* whose status is MATCH, and every status is MATCH, MISMATCH or DATA MISSING
C14_CountersPartition ==
  \A i \in 1..Len(console) :
    LET results == ResultsOf(console[i].tc_id)
        others  == {j \in 1..Len(results) : results[j].status # MATCH}
    IN /\ console[i].verified = Len(results)
       /\ console[i].failed = Cardinality(others)
       /\ console[i].matched = console[i].verified - console[i].failed
       /\ console[i].matched = CountStatus(results, MATCH)
       /\ console[i].failed =
            CountStatus(results, MISMATCH) + CountStatus(results, DATA_MISSING)
       /\ \A j \in 1..Len(results) :
            results[j].status \in {MATCH, MISMATCH, DATA_MISSING}

\* C14 witness: a pass with matching, mismatching and missing fields has
\* printed its counters
C14_Witness ==
  /\ HasPrinted("TC_04")
  /\ CountStatus(tc04_verification_results, MATCH) >= 1
  /\ CountStatus(tc04_verification_results, MISMATCH) >= 1
  /\ CountStatus(tc04_verification_results, DATA_MISSING) >= 1
  /\ Printed("TC_04").failed >= 2

\* nothing was captured for the field: no entry, or an empty one
NotCaptured(cap, f) == Entry(cap, f) \in {Absent, <<>>}

\* the standalone TC_04 is at or past its verification with the capture of
\* step 4 having failed: a capture that succeeds always sets 'Currency'
CaptureFailed == AlonePassTC04Ran /\ tc04_captured_data = EmptyDict

\* every expected field has a result with a status, and the fields nothing
\* was captured for are DATA MISSING (MATCH when nothing was expected either)
EveryFieldClassified ==
  /\ Len(tc04_verification_results) = Len(ItemsAloneTC04)
  /\ \A i \in 1..Len(ItemsAloneTC04) :
       LET r == tc04_verification_results[i]
       IN /\ r.field = ItemsAloneTC04[i][1]
          /\ r.status \in {MATCH, MISMATCH, DATA_MISSING}
          /\ NotCaptured(tc04_captured_data, r.field)
               => /\ r.actual = Blank
                  /\ r.status = IF r.expected = <<>> THEN MATCH ELSE DATA_MISSING

\* step 4 of the standalone run_test always hands over to step 5, with
\* nothing raised and nothing returned
CaptureHandsOver ==
  (script = "alone_tc04" /\ pc = "step_4")
    => /\ pc' = "step_5"
       /\ raised' = "none"
       /\ returns' = returns
       /\ \/ tc04_captured_data' = EmptyDict
          \/ "Currency" \in DOMAIN tc04_captured_data'

\* C15: field extraction never raises to its caller: a field whose pattern
\* has no match is absent from the captured data, a capture step that fails
\* in the standalone TC_04 yields an empty capture, and the verification
\* still runs and classifies every expected field
C15_ExtractionNeverRaises ==
  /\ [](AlonePassTC04Ran => EveryFieldClassified)
  /\ [][CaptureHandsOver]_vars

\* C15 witness: the capture of the standalone TC_04 failed, the verification
\* ran on the empty capture and every field of the expected data is DATA
\* MISSING
C15_Witness ==
  /\ CaptureFailed
  /\ Len(tc04_verification_results) = Len(ItemsAloneTC04)
  /\ \A i \in 1..Len(tc04_verification_results) :
       tc04_verification_results[i].status = DATA_MISSING

Runs(tc_id, at) == pc = at \/ HasReturned(tc_id) \/ raised = tc_id

\* the expected values of the results are the entries of the invoice data
\* stored by TC_03
ExpectedFromTC03(results) ==
  \A i \in 1..Len(results) :
    results[i].expected = Get(Entry(tc03_invoice_data, results[i].field), <<>>)

\* a step of one test case of the suite leaves the results of the other
\* passes as they are
OwnResultsOnly ==
  /\ pc = "tc_04" => UNCHANGED <<tc05_verification_results, tc06_verification_results>>
  /\ pc = "tc_05" => UNCHANGED <<tc04_verification_results, tc06_verification_results>>
  /\ pc = "tc_06" => UNCHANGED <<tc04_verification_results, tc05_verification_results>>

\* C18: in run_all_tests, once TC_03 has passed, TC_05 runs whether TC_04
\* returned True or False and TC_06 runs whether TC_05 returned True or False;
\* the passes of TC_05 and TC_06 take their expected values from the invoice
\* data stored by TC_03, and no test case modifies the results of another pass
C18_PassesIndependentOfVerdicts ==
  /\ []((script = "suite" /\ HasReturned("TC_04"))
          => /\ Returned("TC_03")
             /\ Runs("TC_05", "tc_05"))
  /\ []((script = "suite" /\ HasReturned("TC_05")) => Runs("TC_06", "tc_06"))
  /\ []((script = "suite" /\ HasPrinted("TC_05"))
          => ExpectedFromTC03(tc05_verification_results))
  /\ [](SuitePassTC06Ran => ExpectedFromTC03(tc06_verification_results))
  /\ [][script = "suite" => OwnResultsOnly]_vars

\* C18 witness: TC_04 and TC_05 both failed on mismatched fields and TC_06
\* has run and paid, with the results of the three passes side by side
C18_Witness ==
  /\ script = "suite"
  /\ HasLogged("TC_04") /\ Logged("TC_04").status = "FAILED"
  /\ HasLogged("TC_05") /\ Logged("TC_05").status = "FAILED"
  /\ HasLogged("TC_06") /\ Logged("TC_06").status = "PASSED"
  /\ ~AllMatch(tc04_verification_results)
  /\ ~AllMatch(tc05_verification_results)
  /\ Len(tc06_verification_results) = 6

\* the Amount of one side of the comparison is missing or is not a number
AmountUnparseable(inv_amount, cap_amount) == NoAmount(inv_amount) \/ NoAmount(cap_amount)

\* the list is complete, the Amount has a verdict, and every other field has
\* the status it has when verified on its own
PassCompleted(results, items, cap, Status(_, _, _)) ==
  /\ Len(results) = Len(items)
  /\ \A i \in 1..Len(items) :
       /\ results[i].field = items[i][1]
       /\ results[i].status \in {MATCH, MISMATCH, DATA_MISSING}
       /\ items[i][1] # "Amount"
            => results[i].status = Status(items[i][1], items[i][2], Entry(cap, items[i][1]))

\* VerifyTC06 takes the entry of the TC_03 data, absent or not
StatusTC06(f, e, a) == VerifyTC06(f, Entry(tc03_invoice_data, f), a)

\* C19: a value that cannot be parsed as a number never aborts a verification
\* pass: whatever the expected data and the captured data (Amounts that are
\* not numbers or are missing included), the pass completes with a result for
\* every field, and the fields after the unparseable Amount are verified as
\* they are without it
C19_UnparseableNeverAborts ==
  /\ (/\ script = "suite" /\ HasPrinted("TC_04")
      /\ AmountUnparseable(Entry(tc03_invoice_data, "Amount"),
                           Entry(tc04_captured_data, "Amount")))
       => PassCompleted(tc04_verification_results, ItemsTC04, tc04_captured_data,
                        VerifySuiteTC04)
  /\ (/\ script = "suite" /\ HasPrinted("TC_05")
      /\ AmountUnparseable(Entry(tc03_invoice_data, "Amount"),
                           Entry(tc05_captured_data, "Amount")))
       => PassCompleted(tc05_verification_results, ItemsTC05, tc05_captured_data,
                        VerifySuiteTC05)
  /\ (/\ SuitePassTC06Ran \/ AlonePassTC06Ran
      /\ AmountUnparseable(Entry(tc03_invoice_data, "Amount"),
                           Entry(tc06_form_data, "Amount")))
       => /\ PassCompleted(tc06_verification_results, ItemsTC06, tc06_form_data,
                           StatusTC06)
          /\ tc06_verification_results[6].field = "Purpose"
  /\ (/\ AlonePassTC04Ran
      /\ \E i \in 1..Len(ItemsAloneTC04) :
           /\ ItemsAloneTC04[i][1] = "Amount"
           /\ AmountUnparseable(ItemsAloneTC04[i][2], Entry(tc04_captured_data, "Amount")))
       => PassCompleted(tc04_verification_results, ItemsAloneTC04, tc04_captured_data,
                        VerifyAloneTC04)

\* C19 witness: the pay form of TC_06 showed the Amount 'a'; the pass has its
\* six results, the Amount is a MISMATCH and the Purpose after it is a MATCH
C19_Witness ==
  /\ SuitePassTC06Ran
  /\ Entry(tc06_form_data, "Amount") = <<"a">>
  /\ Len(tc06_verification_results) = 6
  /\ tc06_verification_results[5].field = "Amount"
  /\ tc06_verification_results[5].status = MISMATCH
  /\ tc06_verification_results[6].field = "Purpose"
  /\ tc06_verification_results[6].status = MATCH

\* setup raised: the workbook could not be loaded (or the browser not started)
SetupFailed == script = "suite" /\ raised = "setup"

\* C21: a test-data workbook that cannot be loaded in setup is fatal at
\* startup: run_all_tests executes no test case and logs no result, generates
\* no report, the error stays raised to the caller, and teardown still runs
C21_ConfigErrorFatalAtStartup ==
  /\ [](SetupFailed
          => /\ test_results = <<>>
             /\ returns = <<>>
             /\ reports = 0
             /\ \/ pc = "teardown" /\ teardowns = 0
                \/ pc = "end" /\ teardowns = 1)
  /\ [][SetupFailed => raised' = "setup"]_vars
  /\ [][(script = "suite" /\ pc # "main") => (raised' = "setup" => raised = "setup")]_vars

\* C21 witness: the run is over after a failed setup: nothing logged, the
\* error raised, teardown done
C21_Witness ==
  /\ SetupFailed
  /\ pc = "end"
  /\ teardowns = 1
  /\ test_results = <<>>

\* the test cases of the suite in the order of run_all_tests
TestCases == <<"TC_01", "TC_02", "TC_03", "TC_04", "TC_05", "TC_06">>

\* the program counter at which each test case is the next call
CallOf(tc_id) ==
  CASE tc_id = "TC_01" -> "tc_01" [] tc_id = "TC_02" -> "tc_02"
    [] tc_id = "TC_03" -> "tc_03" [] tc_id = "TC_04" -> "tc_04"
    [] tc_id = "TC_05" -> "tc_05" [] tc_id = "TC_06" -> "tc_06"

\* the test case is called only after the earlier one returned value
OnlyAfter(tc_id, earlier, value) ==
  Runs(tc_id, CallOf(tc_id)) => (HasReturned(earlier) /\ Returned(earlier) = value)

\* the earlier test case has been called and has ended before the later one
\* is called
InOrder(earlier, later) ==
  Runs(later, CallOf(later)) => (HasReturned(earlier) /\ pc # CallOf(earlier))

\* C22: run_all_tests executes the test cases in the order TC_01..TC_06, TC_02
\* only if TC_01 returned True, TC_03 only if TC_02 returned True, TC_04,
\* TC_05 and TC_06 only if TC_03 returned True; a test case that is skipped
\* logs nothing, so the logged tc_ids are a prefix of TC_01..TC_06 without
\* duplicates
C22_FixedOrderAndGates ==
  script = "suite"
    => /\ OnlyAfter("TC_02", "TC_01", TRUE)
       /\ OnlyAfter("TC_03", "TC_02", TRUE)
       /\ OnlyAfter("TC_04", "TC_03", TRUE)
       /\ OnlyAfter("TC_05", "TC_03", TRUE)
       /\ OnlyAfter("TC_06", "TC_03", TRUE)
       /\ \A i \in 1..5 : InOrder(TestCases[i], TestCases[i + 1])
       /\ Len(test_results) <= Len(TestCases)
       /\ \A i \in 1..Len(test_results) : test_results[i].tc_id = TestCases[i]
       /\ Len(returns) = Len(test_results)
       /\ \A i \in 1..Len(returns) : returns[i].call = TestCases[i]

\* C22 witness: TC_01 and TC_02 passed, TC_03 failed, and the run ended with
\* three logged results
C22_Witness ==
  /\ script = "suite"
  /\ pc = "end"
  /\ Len(test_results) = 3
  /\ Returned("TC_01") /\ Returned("TC_02")
  /\ HasReturned("TC_03") /\ ~Returned("TC_03")
  /\ reports = 1

\* run_all_tests is over
SuiteOver == script = "suite" /\ pc = "end"

\* a test case raised out of its except clause
TestCaseRaised == \E i \in 1..Len(TestCases) : raised = TestCases[i]

\* teardown ran exactly once by the end of the run, and never twice
TeardownOnce == /\ script = "suite" => teardowns <= 1
                /\ SuiteOver => teardowns = 1

EntriesOf(tc_id) == {i \in 1..Len(test_results) : test_results[i].tc_id = tc_id}

\* the test-case method was executed: it returned, or raised out of its
\* except clause
Executed(tc_id) == HasReturned(tc_id) \/ raised = tc_id

\* exactly one entry, PASSED or FAILED, and True returned iff PASSED
OneEntry(tc_id) ==
  /\ Cardinality(EntriesOf(tc_id)) = 1
  /\ Logged(tc_id).status \in {"PASSED", "FAILED"}
  /\ HasReturned(tc_id)
  /\ Returned(tc_id) <=> Logged(tc_id).status = "PASSED"

\* the counters of the report on the results logged so far
ReportCounters ==
  /\ passed(test_results) + failed(test_results) = total(test_results)
  /\ test_results = <<>> => pass_rate(test_results) = 0
  /\ test_results # <<>> => pass_rate(test_results)[2] > 0

StepsTC06 ==
  <<"login_as_client", "find_and_view_invoice", "approve_invoice",
    "navigate_to_pay_invoice", "capture_and_verify_form_data", "complete_payment",
    "close_popup">>

\* the step methods that have returned so far, in the order they returned
IsStep(r) == r.call # "run"
StepTrace == SelectSeq(returns, IsStep)

\* the first n steps have returned True
Succeeded(n) == Len(StepTrace) >= n /\ \A i \in 1..n : StepTrace[i].value

\* run() is at or past its finally clause
RunOver == script = "alone_tc06" /\ pc \in {"finally", "end"}

\* steps in order, the first failure is the last step, no payment without the
\* five steps before it, PASSED exactly after six successful steps
StepsInOrder ==
  /\ Len(StepTrace) <= Len(StepsTC06)
  /\ \A i \in 1..Len(StepTrace) : StepTrace[i].call = StepsTC06[i]
  /\ \A i \in 1..Len(StepTrace) :
       (StepTrace[i].call # "close_popup" /\ ~StepTrace[i].value)
         => /\ i = Len(StepTrace)
            /\ test_result = "FAILED"
            /\ RunOver
  /\ test_result = "FAILED" => RunOver
  /\ paid => Succeeded(5)
  /\ RunOver
       => /\ test_result \in {"PASSED", "FAILED"}
          /\ test_result = "PASSED" <=> Succeeded(6)
          /\ HasReturned("run")
          /\ Returned("run") <=> test_result = "PASSED"

C26_PaymentIndependentOfVerification ==
  /\ (script = "suite" /\ HasLogged("TC_06"))
       => /\ Logged("TC_06").details \in {"passed", "exception"}
          /\ Logged("TC_06").status = "PASSED" => paid
  /\ (script = "alone_tc06" /\ pc \in {"finally", "end"})
       => (test_result = "PASSED" <=> (Succeeded(6) /\ paid))
  /\ (script = "alone_tc06" /\ tc03_invoice_data = EmptyDict)
       => tc06_verification_results = <<>>

\* C26 witness: the suite's tc_06 paid and logged PASSED with a mismatching
\* and a missing field among its results
C26_Witness ==
  /\ script = "suite"
  /\ paid
  /\ HasLogged("TC_06")
  /\ Logged("TC_06").status = "PASSED"
  /\ Returned("TC_06")
  /\ \/ CountStatus(tc06_verification_results, MISMATCH) >= 1
     \/ CountStatus(tc06_verification_results, DATA_MISSING) >= 1
  /\ ~AllMatch(tc06_verification_results)

\* the standalone TC_06 passed and paid without TC_03 data and without a
\* single verification result
C26_PassedWithoutVerification ==
  /\ script = "alone_tc06"
  /\ pc = "end"
  /\ tc03_invoice_data = EmptyDict
  /\ tc06_verification_results = <<>>
  /\ paid
  /\ test_result = "PASSED"

\* C27: the duplicated verifiers agree: on every expected and captured value
\* of a field the suite's tc_06 loop and the standalone TC_06 loop give the
\* same status, and the suite's tc_04 loop and the standalone _verify_data
\* give the same status for every field other than Amount
C27_DuplicatedVerifiersAgree ==
  Verified
    => /\ verifier = "suite_tc06"
            => StatusOf = VerifyAloneTC06(field, invoice_data, captured_data)
       /\ verifier = "alone_tc06"
            => StatusOf = VerifySuiteTC06(field, invoice_data, captured_data)
       /\ (verifier = "suite_tc04" /\ field # "Amount")
            => StatusOf = VerifyAloneTC04(field, ExpectedOf, captured_data)
       /\ (verifier = "alone_tc04" /\ field # "Amount")
            => StatusOf = VerifySuiteTC04(field, ExpectedOf, captured_data)

\* C27 witness: the standalone TC_06 was handed TC_03 data without the field
\* and found nothing on the form, and both TC_06 loops say DATA MISSING
C27_Witness ==
  /\ Verified
  /\ verifier = "alone_tc06"
  /\ field # "Amount"
  /\ invoice_data = Absent
  /\ Get(captured_data, <<>>) = <<>>
  /\ StatusOf = DATA_MISSING
  /\ VerifySuiteTC06(field, invoice_data, captured_data) = DATA_MISSING

\* the selector loop of tc_02_login has run and its outcomes are on record
EmailLoopRan == script = "suite" /\ visible # <<>>

\* some candidate selector was visible
SomeSelectorVisible == \E i \in 1..Len(visible) : visible[i] = "visible"

\* C28: tc_02_login holds the first selector, in listed order, that is
\* visible and goes on to fill it; when no candidate selector is visible it
\* holds no locator, fills nothing, and the test case fails with 'Could not
\* find email input field' (unless the screenshot of its except clause
\* raises in turn)
C28_FirstVisibleSelectorOrFailure ==
  EmailLoopRan
    => IF SomeSelectorVisible
       THEN /\ pc = "tc_02_fill"
            /\ visible[email_input] = "visible"
            /\ \A j \in 1..(email_input - 1) : visible[j] # "visible"
       ELSE /\ email_input = 0
            /\ pc # "tc_02_fill"
            /\ \/ raised = "TC_02"
               \/ /\ HasLogged("TC_02")
                  /\ Logged("TC_02").status = "FAILED"
                  /\ Logged("TC_02").details = "Could not find email input field"

\* no candidate selector is visible and tc_02_login is about to fill the
\* locator of the last selector, "input[type='text']"
C28_FillsWithoutVisibleSelector ==
  /\ EmailLoopRan
  /\ ~SomeSelectorVisible
  /\ pc = "tc_02_fill"
  /\ email_input = Len(email_selectors)
  /\ \A i \in 1..Len(visible) : visible[i] = "hidden"

\* step 2 of the standalone run_test has run and the page it looked at is on
\* record
FindRan ==
  /\ script = "alone_tc04"
  /\ visible # <<>>
  /\ HasReturned("_find_invoice_in_receivables")

\* the invoice was seen on the page, by its text or as a table row
InvoiceSeen ==
  /\ invoice_number # Absent
  /\ visible[1] = "visible" \/ (visible[2] = "visible" /\ visible[3] = "visible")

\* no call of _find_invoice_in_receivables raised
NoFindError == \A i \in 1..Len(visible) : visible[i] # "raises"

\* C29: in the standalone TC_04 script _find_invoice_in_receivables returns
\* True only if the invoice was seen on the page, by text or as a table row;
\* when the invoice is not visible and no error occurs it returns False and
\* run_test fails before it attempts to click the eye icon
C29_FoundOnlyIfSeen ==
  FindRan
    => /\ Returned("_find_invoice_in_receivables") => InvoiceSeen
       /\ (~InvoiceSeen /\ NoFindError)
            => /\ ~Returned("_find_invoice_in_receivables")
               /\ pc \in {"except", "teardown", "end"}
               /\ ~HasReturned("_click_eye_icon")
               /\ HasReturned("run_test") => ~Returned("run_test")

\* the invoice is nowhere visible, nothing raised, and run_test is about to
\* click the eye icon
C29_GoesOnWithoutInvoice ==
  /\ FindRan
  /\ invoice_number = INV_5
  /\ \A i \in 1..Len(visible) : visible[i] = "hidden"
  /\ Returned("_find_invoice_in_receivables")
  /\ pc = "step_3"

\* the standalone run_test is over, teardown included
RunTestOver == script = "alone_tc04" /\ pc = "end"

\* the three step methods of run_test returned True
StepsSucceeded ==
  \A step \in {"_login", "_find_invoice_in_receivables", "_click_eye_icon"} :
    HasReturned(step) /\ Returned(step)

\* C30: the standalone run_test always ends with a boolean and a report:
\* whatever step failed (browser setup, login, find invoice, eye-icon click)
\* it has written the report, returned False instead of raising, and run
\* teardown; it returns True only if all steps succeeded and every
\* verified field is MATCH
C30_AlwaysBooleanAndReport ==
  RunTestOver
    => /\ teardowns = 1
       /\ raised = "none"
       /\ HasReturned("run_test")
       /\ reports = 1
       /\ Returned("run_test")
            => StepsSucceeded /\ AllMatch(tc04_verification_results)

\* browser setup failed: run_test raised out of its except clause, without
\* a report and without a return value
C30_SetupFailureRaises ==
  /\ RunTestOver
  /\ page = "None"
  /\ raised = "run_test"
  /\ reports = 0
  /\ ~HasReturned("run_test")
  /\ teardowns = 1

\* a run_test whose setup failed never returns and never writes a report
C30_SetupFailureNeverReports ==
  (script = "alone_tc04" /\ page = "None" /\ pc \in {"teardown", "end"})
    => raised = "run_test" /\ reports = 0 /\ ~HasReturned("run_test")

====
